---------------------------- MODULE Spec2Model ----------------------------
(***************************************************************************)
(* TgSteamKeyActivator: a Telegram bot that watches channels for Steam     *)
(* keys (as text or as screenshots) and redeems them on a Steam account.   *)
(*                                                                         *)
(* Modelled here:                                                          *)
(*   steam/key_activator.js  (src/unnamed/part_000)  init / activate       *)
(*   steam/steam.js                                  the older activate    *)
(*   handler for g2keys      (src/unnamed/part_003)  text handler          *)
(*   handler/freebie_steam-handler.js                image handler         *)
(*   telegram/event-handler.js                       the dispatcher        *)
(*                                                                         *)
(* A JavaScript string is a sequence of one-character strings; the         *)
(* em-dash, which a TLA+ string cannot hold, is the token EmDash.          *)
(***************************************************************************)
EXTENDS Naturals, Sequences, FiniteSets

-----------------------------------------------------------------------------
(* Bounds of the model *)

\* activate calls made by a direct caller of the module (SpecActivator)
MaxCalls == 1
\* logOn responses delivered to one init (SpecActivator)
MaxLogOn == 2
\* inbound events the messaging session delivers (Spec)
MaxEvents == 2

-----------------------------------------------------------------------------
(* Characters and strings *)

EmDash == "em-dash"
UpperSeq == << "A","B","C","D","E","F","G","H","I","J","K","L","M",
               "N","O","P","Q","R","S","T","U","V","W","X","Y","Z" >>
LowerSeq == << "a","b","c","d","e","f","g","h","i","j","k","l","m",
               "n","o","p","q","r","s","t","u","v","w","x","y","z" >>
Range(f) == { f[i] : i \in DOMAIN f }
Upper == Range(UpperSeq)
Lower == Range(LowerSeq)
Digits == { "0","1","2","3","4","5","6","7","8","9" }
WhiteSpace == { " ", "\t", "\n", "\r" }

\* JavaScript's undefined and null where a string or an array is expected
Undefined == << "undefined" >>
Null == << "null" >>

\* String.prototype.toUpperCase, one character
UpperChar(c) ==
    IF c \in Lower
    THEN UpperSeq[CHOOSE i \in DOMAIN LowerSeq : LowerSeq[i] = c]
    ELSE c

\* String.prototype.toUpperCase
toUpperCase(s) == [ i \in DOMAIN s |-> UpperChar(s[i]) ]

RECURSIVE TrimLeft(_)
TrimLeft(s) ==
    IF s # << >> /\ Head(s) \in WhiteSpace THEN TrimLeft(Tail(s)) ELSE s

RECURSIVE TrimRight(_)
TrimRight(s) ==
    IF s # << >> /\ s[Len(s)] \in WhiteSpace
    THEN TrimRight(SubSeq(s, 1, Len(s) - 1))
    ELSE s

\* String.prototype.trim
trim(s) == TrimRight(TrimLeft(s))

-----------------------------------------------------------------------------
(* steam/key_activator.js and steam/steam.js: constants *)

EC_ACTIVATION_FAILED == 1
EC_ACTIVATION_FAILED_ALREADY_ACTIVATED == 2
EC_NOT_INITED == 3
EC_AUTH_FAILED == 4
EC_AUTH_CODE_REQUIRED == 5
LOGIN_CODE_REQUIRED == 63
\* Steam.EResult.OK and Steam.EResult.Fail
EResultOK == 1
EResultFail == 2

\* The two implementations of init / activate in the repository
KeyActivatorJs == "key_activator.js"
SteamJs == "steam.js"
Impls == { KeyActivatorJs, SteamJs }

\* purchase_result_details values the platform answers with
DetailCodes == { 0, 9, 14, 15, 53 }
\* purchase_receipt_info of a response: absent, decoded with no line item,
\* decoded with one line item
Receipts == { "absent", "empty", "item" }
ItemDescription == "Some Game"

\* The responses SteamRegistrar.activateKey hands to its callback
PurchaseResponses ==
    [ eresult : { EResultOK, EResultFail },
      purchase_result_details : DetailCodes,
      receipt : Receipts ]

\* The responses the platform answers the handlers' activations with in Spec
PipelineResponses ==
    { [ eresult |-> EResultOK, purchase_result_details |-> 0,
        receipt |-> "item" ],
      [ eresult |-> EResultOK, purchase_result_details |-> 0,
        receipt |-> "absent" ],
      [ eresult |-> EResultFail, purchase_result_details |-> 53,
        receipt |-> "empty" ] }

\* logOnResponse result codes
LogOnResults == { EResultOK, LOGIN_CODE_REQUIRED, 5 }

-----------------------------------------------------------------------------
(* State *)

VARIABLES
    session,      \* per implementation: the Steam session and its init promise
    calls,        \* the activate calls made so far, in call order
    handlers,     \* the listeners of 'event' on the emitter, in order
    lastMsg,      \* the text handler's lastMsg
    runs,         \* the image handler's promise chains, in start order
    nEvents,      \* inbound events delivered so far
    dispatch,     \* what the last delivery of an inbound event did
    eval,         \* the last call of a function made by a unit harness
    startup,      \* index.js: the startup chain and the process
    tg            \* telegram-client: the init promise and the login

vars ==
    << session, calls, handlers, lastMsg, runs, nEvents, dispatch, eval,
       startup, tg >>

\* No function has been called by a unit harness
NoEval == [ fn |-> "none", arg |-> << >>, out |-> << >> ]

\* No uncaught exception has ended the process: none raised in the callback
\* of tesseract.process, none in the callback of activateKey, none in the
\* callback of fs.readdir; and the catch of index.js has not called
\* process.exit
Alive ==
    /\ \A r \in DOMAIN runs : runs[r].stage # "uncaught"
    /\ \A i \in DOMAIN calls : ~calls[i].threw
    /\ startup.stage \notin { "exited", "crashed" }

-----------------------------------------------------------------------------
(* index.js: the startup chain; telegram-client and login-2fa: init *)

\* The modules are used by a direct caller: index.js is not running
NoStartup ==
    [ stage |-> "none", steps |-> << >>, exit |-> "none",
      loadHandlers |-> "idle", files |-> << >>, count |-> 0,
      observing |-> FALSE ]

\* Telegram.init has not been called
TgIdle ==
    [ init |-> "idle", pending |-> "none", requests |-> << >>,
      checks |-> << >>, logins |-> 0, error |-> "none", settles |-> 0,
      result |-> "none" ]

\* telegram.app(method, ...): the request is sent, its promise is pending
TgRequest(t, method) ==
    [ t EXCEPT !.pending = method, !.requests = Append(@, method) ]

\* connect() of exports.init: isUserAuthorized(phone) calls users.getFullUser
TgConnect(t) == TgRequest(t, "users.getFullUser")

\* _login() of exports.init: login(phone) calls auth.sendCode
TgLogin(t) == TgRequest([ t EXCEPT !.logins = @ + 1 ], "auth.sendCode")

\* resolve() / reject(ex) of the promise of exports.init: the first settles it
TgSettle(t, state, error) ==
    IF t.init = "pending"
    THEN [ t EXCEPT !.init = state, !.error = error, !.pending = "none",
                    !.settles = @ + 1 ]
    ELSE [ t EXCEPT !.pending = "none", !.settles = @ + 1 ]

\* The errors a call of telegram.app fails with, by telegram.errorType
TgErrors ==
    { "AUTH_KEY_UNREGISTERED", "SESSION_PASSWORD_NEEDED",
      "PHONE_CODE_INVALID", "FLOOD_WAIT" }

\* isUserAuthorized settles and the then / catch of connect() run
TgCheckDoneLoginOnError(t, result) ==
    IF result = "ok"
    THEN TgSettle([ t EXCEPT !.checks = Append(@, "true") ], "resolved",
                  "none")
    ELSE TgLogin([ t EXCEPT !.checks = Append(@, "false") ])
TgCheckDone(t, result) ==
    IF result = "ok"
    THEN TgSettle([ t EXCEPT !.checks = Append(@, "true") ], "resolved",
                  "none")
    ELSE IF result \in { "AUTH_KEY_UNREGISTERED", "SESSION_PASSWORD_NEEDED" }
    THEN TgLogin([ t EXCEPT !.checks = Append(@, "false") ])
    ELSE TgSettle([ t EXCEPT !.checks = Append(@, "error") ], "rejected",
                  result)

\* A call of login(phone) goes on: the await of login-2fa it was at returns
\* or throws, and the then / catch of _login() run when login settles
TgLoginStepPasswordOnAnyError(t, result) ==
    IF t.pending = "auth.sendCode"
    THEN IF result = "ok" THEN TgRequest(t, "auth.signIn")
         ELSE TgSettle(t, "rejected", result)
    ELSE IF t.pending = "auth.signIn"
    THEN IF result = "ok" THEN TgConnect(t)
         ELSE TgRequest(t, "account.getPassword")
    ELSE IF t.pending = "account.getPassword"
    THEN IF result = "ok" THEN TgRequest(t, "auth.checkPassword")
         ELSE TgSettle(t, "rejected", result)
    ELSE IF result = "ok" THEN TgConnect(t)
         ELSE TgSettle(t, "rejected", result)
TgLoginStepResolving(t, result) ==
    IF t.pending = "auth.sendCode"
    THEN IF result = "ok" THEN TgRequest(t, "auth.signIn")
         ELSE TgSettle(t, "rejected", result)
    ELSE IF t.pending = "auth.signIn"
    THEN IF result = "ok" THEN TgSettle(t, "resolved", "none")
         ELSE IF result = "SESSION_PASSWORD_NEEDED"
         THEN TgRequest(t, "account.getPassword")
         ELSE TgSettle(t, "rejected", result)
    ELSE IF t.pending = "account.getPassword"
    THEN IF result = "ok" THEN TgRequest(t, "auth.checkPassword")
         ELSE TgSettle(t, "rejected", result)
    ELSE IF result = "ok" THEN TgSettle(t, "resolved", "none")
         ELSE TgSettle(t, "rejected", result)
TgLoginStep(t, result) ==
    IF t.pending = "auth.sendCode"
    THEN IF result = "ok" THEN TgRequest(t, "auth.signIn")
         ELSE TgSettle(t, "rejected", result)
    ELSE IF t.pending = "auth.signIn"
    THEN IF result = "ok" THEN TgConnect(t)
         ELSE IF result = "SESSION_PASSWORD_NEEDED"
         THEN TgRequest(t, "account.getPassword")
         ELSE TgSettle(t, "rejected", result)
    ELSE IF t.pending = "account.getPassword"
    THEN IF result = "ok" THEN TgRequest(t, "auth.checkPassword")
         ELSE TgSettle(t, "rejected", result)
    ELSE IF result = "ok" THEN TgConnect(t)
         ELSE TgSettle(t, "rejected", result)

\* The next stage of the chain of index.js starts
StartStage(su, stage) ==
    [ su EXCEPT !.stage = stage, !.steps = Append(@, stage) ]

\* The catch of index.js: process.exit()
Exit(su) == [ su EXCEPT !.exit = su.stage, !.stage = "exited" ]

\* The chain of index.js after KeyActivator.init settled as in s: on resolve
\* Telegram.init is called, on reject the catch ends the process
AfterSteamInitAnySettle(su, t, s) ==
    IF su.stage # "steam" \/ s.init = "pending"
    THEN [ startup |-> su, tg |-> t ]
    ELSE [ startup |-> StartStage(su, "telegram"),
           tg |-> TgConnect([ t EXCEPT !.init = "pending" ]) ]
AfterSteamInit(su, t, s) ==
    IF su.stage # "steam" \/ s.init = "pending"
    THEN [ startup |-> su, tg |-> t ]
    ELSE IF s.init = "resolved"
    THEN [ startup |-> StartStage(su, "telegram"),
           tg |-> TgConnect([ t EXCEPT !.init = "pending" ]) ]
    ELSE [ startup |-> Exit(su), tg |-> t ]

\* The chain of index.js after Telegram.init settled as in t: on resolve
\* EventHandler.loadHandlers is called and calls fs.readdir
AfterTgInit(su, t) ==
    IF su.stage # "telegram" \/ t.init = "pending" THEN su
    ELSE IF t.init = "resolved"
    THEN [ StartStage(su, "handlers") EXCEPT !.loadHandlers = "pending" ]
    ELSE Exit(su)

-----------------------------------------------------------------------------
(* steam/key_activator.js, steam/steam.js: init *)

\* let _ready = false (key_activator.js), let inted = false (steam.js);
\* no init called yet
SessionInit ==
    [ ready |-> FALSE, init |-> "idle", initError |-> 0,
      connecting |-> 0, loggingOn |-> 0, authCode |-> FALSE, responses |-> 0,
      code |-> 0, lost |-> FALSE ]

\* exports.isReady
isReady(impl) == session[impl].ready

\* exports.init: the promise executor up to client.connect()
InitCall(impl) ==
    /\ Alive
    /\ session[impl].init = "idle"
    /\ session' = [ session EXCEPT ![impl].init = "pending",
                                   ![impl].connecting = @ + 1 ]
    /\ UNCHANGED << calls, handlers, lastMsg, runs, nEvents, dispatch, eval,
                    startup, tg >>

\* client.on('connected'): steamUser.logOn(logonDetails)
Connected(impl) ==
    /\ Alive
    /\ session[impl].connecting > 0
    /\ session' = [ session EXCEPT ![impl].connecting = @ - 1,
                                   ![impl].loggingOn = @ + 1 ]
    /\ UNCHANGED << calls, handlers, lastMsg, runs, nEvents, dispatch, eval,
                    startup, tg >>

\* resolve / reject of the init promise: a settled promise stays as it is
Settle(s, state, error) ==
    IF s.init = "pending"
    THEN [ s EXCEPT !.init = state, !.initError = error ]
    ELSE s

\* client.on("logOnResponse") of key_activator.js
KeyActivatorLogOnResponse(s, code) ==
    IF code = EResultOK
    THEN Settle([ s EXCEPT !.ready = TRUE ], "resolved", 0)
    ELSE IF code = LOGIN_CODE_REQUIRED
    THEN [ s EXCEPT !.authCode = TRUE,
                    !.connecting = @ + 1,
                    !.loggingOn = @ + 1 ]
    ELSE Settle(s, "rejected", EC_AUTH_FAILED)

\* bot.on("logOnResponse") of steam.js
SteamJsLogOnResponse(s, code) ==
    IF code = EResultOK
    THEN Settle([ s EXCEPT !.ready = TRUE ], "resolved", 0)
    ELSE IF code = LOGIN_CODE_REQUIRED
    THEN Settle(s, "rejected", EC_AUTH_CODE_REQUIRED)
    ELSE Settle(s, "rejected", EC_AUTH_FAILED)

\* A logOn response arrives
LogOnResponse(impl, code) ==
    /\ Alive
    /\ session[impl].loggingOn > 0
    /\ session[impl].responses < MaxLogOn
    /\ LET s == [ session[impl] EXCEPT !.loggingOn = @ - 1,
                                       !.responses = @ + 1,
                                       !.code = code ]
           new == IF impl = KeyActivatorJs
                  THEN KeyActivatorLogOnResponse(s, code)
                  ELSE SteamJsLogOnResponse(s, code)
           chain == IF impl = KeyActivatorJs
                    THEN AfterSteamInit(startup, tg, new)
                    ELSE [ startup |-> startup, tg |-> tg ]
       IN  /\ session' = [ session EXCEPT ![impl] = new ]
           /\ startup' = chain.startup
           /\ tg' = chain.tg
    /\ UNCHANGED << calls, handlers, lastMsg, runs, nEvents, dispatch, eval >>

\* The connection to the platform is lost after the login. Neither module
\* registers a listener for it ('error', 'loggedOff'), so nothing of the
\* module runs: the process goes on, or ends on the unhandled 'error' event
ConnectionLostResettingReady(impl, fatal) ==
    /\ Alive
    /\ session[impl].ready
    /\ ~session[impl].lost
    /\ session' = [ session EXCEPT ![impl].lost = TRUE,
                                   ![impl].ready = FALSE ]
    /\ startup' = IF fatal THEN [ startup EXCEPT !.stage = "crashed" ]
                  ELSE startup
    /\ UNCHANGED << calls, handlers, lastMsg, runs, nEvents, dispatch, eval,
                    tg >>
ConnectionLost(impl, fatal) ==
    /\ Alive
    /\ session[impl].ready
    /\ ~session[impl].lost
    /\ session' = [ session EXCEPT ![impl].lost = TRUE ]
    /\ startup' = IF fatal THEN [ startup EXCEPT !.stage = "crashed" ]
                  ELSE startup
    /\ UNCHANGED << calls, handlers, lastMsg, runs, nEvents, dispatch, eval,
                    tg >>

-----------------------------------------------------------------------------
(* steam/key_activator.js, steam/steam.js: activate *)

\* getGameName(purchaseResponse) raises a TypeError when the response holds
\* no purchase_receipt_info to dereference
getGameNameThrows(resp) == resp.receipt = "absent"

\* getGameName(purchaseResponse), when it returns
getGameName(resp) ==
    IF resp.receipt = "item" THEN ItemDescription ELSE "unknown"

\* key_activator.js: the key handed to SteamRegistrar.activateKey
KeySent(cdKey) == trim(cdKey)

\* key_activator.js: the key as the log lines show it
KeyShown(cdKey) == toUpperCase(trim(cdKey))

\* key_activator.js: the value activate rejects with after a non-OK response
ErrorCode(details) ==
    CASE details = 9  -> EC_ACTIVATION_FAILED
      [] details = 14 -> EC_ACTIVATION_FAILED
      [] details = 15 -> EC_ACTIVATION_FAILED_ALREADY_ACTIVATED
      [] OTHER        -> EC_ACTIVATION_FAILED

\* key_activator.js: the branches of the switch that call getGameName
LogsGameName(details) == details \in { 9, 15 }

\* steam.js: the value activate rejects with after a non-OK response
SteamJsErrorCode(details) ==
    IF details = 53
    THEN EC_ACTIVATION_FAILED_ALREADY_ACTIVATED
    ELSE EC_ACTIVATION_FAILED

\* exports.activate up to the return of the promise: the record of the call.
\* requests counts the redemption requests issued for the call, inFlight
\* says that one of them has no response yet.
activateUnguarded(impl, caller, cdKey, ready) ==
    [ impl |-> impl, caller |-> caller, arg |-> cdKey,
      sent |-> KeySent(cdKey), shown |-> KeyShown(cdKey),
      requests |-> 1, inFlight |-> TRUE,
      promise |-> "pending", error |-> 0, value |-> Undefined,
      resp |-> << >>, gameName |-> "none", threw |-> FALSE ]
activate(impl, caller, cdKey, ready) ==
    IF ~ready
    THEN [ impl |-> impl, caller |-> caller, arg |-> cdKey,
           sent |-> Undefined, shown |-> Undefined,
           requests |-> 0, inFlight |-> FALSE,
           promise |-> "rejected", error |-> EC_NOT_INITED,
           value |-> Undefined,
           resp |-> << >>, gameName |-> "none", threw |-> FALSE ]
    ELSE [ impl |-> impl, caller |-> caller, arg |-> cdKey,
           sent |-> IF impl = KeyActivatorJs THEN KeySent(cdKey) ELSE cdKey,
           shown |-> IF impl = KeyActivatorJs THEN KeyShown(cdKey)
                     ELSE Undefined,
           requests |-> 1, inFlight |-> TRUE,
           promise |-> "pending", error |-> 0, value |-> Undefined,
           resp |-> << >>, gameName |-> "none", threw |-> FALSE ]

\* key_activator.js: the callback given to activateKey
KeyActivatorCallback(c, resp) ==
    LET got == [ c EXCEPT !.inFlight = FALSE, !.resp = << resp >> ]
    IN  IF resp.eresult = EResultOK
        THEN IF getGameNameThrows(resp)
             THEN [ got EXCEPT !.threw = TRUE ]
             ELSE [ got EXCEPT !.gameName = getGameName(resp),
                               !.promise = "resolved", !.value = c.sent ]
        ELSE IF LogsGameName(resp.purchase_result_details)
                  /\ getGameNameThrows(resp)
             THEN [ got EXCEPT !.threw = TRUE ]
             ELSE [ got EXCEPT
                      !.gameName =
                          IF LogsGameName(resp.purchase_result_details)
                          THEN getGameName(resp) ELSE "none",
                      !.promise = "rejected",
                      !.error = ErrorCode(resp.purchase_result_details) ]

\* steam.js: the callback given to activateKey
SteamJsCallback(c, resp) ==
    LET got == [ c EXCEPT !.inFlight = FALSE, !.resp = << resp >>,
                          !.shown = toUpperCase(c.sent) ]
    IN  IF resp.eresult = EResultOK
        THEN [ got EXCEPT !.promise = "resolved", !.value = c.sent ]
        ELSE [ got EXCEPT
                 !.promise = "rejected",
                 !.error = SteamJsErrorCode(resp.purchase_result_details) ]

\* The callback given to activateKey, run on the response to the request
CallbackRetrying(c, resp) ==
    LET done == IF c.impl = KeyActivatorJs
                THEN KeyActivatorCallback(c, resp)
                ELSE SteamJsCallback(c, resp)
    IN  IF resp.eresult # EResultOK /\ c.requests < 2
        THEN [ c EXCEPT !.requests = @ + 1 ]
        ELSE done
Callback(c, resp) ==
    IF c.impl = KeyActivatorJs
    THEN KeyActivatorCallback(c, resp)
    ELSE SteamJsCallback(c, resp)

\* A caller of the module calls activate(cdKey)
RawKeys ==
    { << " ", "a", "b", "1", "-", "C", "d", "\n" >>,
      << "X", "Y", "-", "z", "9" >>,
      << "\t", "Q", "W", EmDash, "7", " " >> }

ActivateCall(impl, cdKey) ==
    /\ Alive
    /\ Len(calls) < MaxCalls
    /\ calls' = Append(calls, activate(impl, "caller", cdKey, isReady(impl)))
    /\ UNCHANGED << session, handlers, lastMsg, runs, nEvents, dispatch, eval,
                    startup, tg >>

\* The platform answers the redemption request of call i
PurchaseResponse(i, resp) ==
    /\ Alive
    /\ i \in DOMAIN calls
    /\ calls[i].inFlight
    /\ calls' = [ calls EXCEPT ![i] = Callback(calls[i], resp) ]
    /\ UNCHANGED << session, handlers, lastMsg, runs, nEvents, dispatch, eval,
                    startup, tg >>

-----------------------------------------------------------------------------
(* Inbound events of the messaging session *)

\* const chatId of the g2keys handler and of the freebie_steam handler
G2KeysChatId == 1298051109
FreebieChatId == 1195028505
OtherChatId == 1340035066

G2Keys == "g2keys"
FreebieSteam == "freebie_steam"

NoPhoto == [ id |-> 0, sizes |-> << >> ]
Photo3 ==
    [ id |-> 77,
      sizes |-> << [ location |-> "loc-s", size |-> 10 ],
                   [ location |-> "loc-m", size |-> 50 ],
                   [ location |-> "loc-x", size |-> 200 ] >> ]

\* Message bodies
KeyXY == << "X","X","X","X","X","-","Y","Y","Y","Y","Y" >>
KeyAB == << "k","e","y",":"," ","A","B","1","2","C","-","D","E","3","4","F",
            " ","n","o","w","!" >>
Hello == << "h","e","l","l","o" >>
EmptyBody == << >>

\* updateNewChannelMessage with a text body and no media
TextUpdate(chat, body) ==
    [ kind |-> "updateNewChannelMessage", channel_id |-> chat,
      message |-> body, media |-> "none", photo |-> NoPhoto ]

\* updateNewChannelMessage with media and a caption
MediaUpdate(chat, caption, media) ==
    [ kind |-> "updateNewChannelMessage", channel_id |-> chat,
      message |-> caption, media |-> media,
      photo |-> IF media = "messageMediaPhoto" THEN Photo3 ELSE NoPhoto ]

\* an update of another kind
ReadInbox(chat) ==
    [ kind |-> "updateReadChannelInbox", channel_id |-> chat,
      message |-> EmptyBody, media |-> "none", photo |-> NoPhoto ]

Updates(us) == [ kind |-> "updates", updates |-> us ]
NoEvent == [ kind |-> "none", updates |-> << >> ]

\* The inbound events the messaging session delivers in this model
InboundEvents ==
    { Updates(<< TextUpdate(G2KeysChatId, KeyXY) >>),
      Updates(<< TextUpdate(G2KeysChatId, KeyAB) >>),
      Updates(<< TextUpdate(G2KeysChatId, Hello) >>),
      Updates(<< TextUpdate(G2KeysChatId, EmptyBody) >>),
      Updates(<< MediaUpdate(FreebieChatId, EmptyBody, "messageMediaPhoto") >>),
      Updates(<< ReadInbox(G2KeysChatId),
                 TextUpdate(OtherChatId, KeyXY),
                 MediaUpdate(FreebieChatId, KeyXY, "messageMediaPhoto"),
                 MediaUpdate(FreebieChatId, EmptyBody,
                             "messageMediaDocument") >>),
      Updates(<< ReadInbox(G2KeysChatId),
                 MediaUpdate(FreebieChatId, EmptyBody, "messageMediaPhoto"),
                 TextUpdate(G2KeysChatId, KeyXY),
                 TextUpdate(G2KeysChatId, KeyAB) >>),
      [ kind |-> "updateShort", updates |-> << >> ] }

-----------------------------------------------------------------------------
(* The g2keys handler: eventsFilter and parseCdKey *)

\* The least length of a run the pattern of parseCdKey matches: {5,}
MinKeyLen == 5

\* A character of the class [ A-Z0-9(em-dash)-]
KeyChar(c) == c \in ({ " ", EmDash, "-" } \cup Upper \cup Digits)

\* The number of characters of the class at s[i], s[i+1], ...
RECURSIVE RunLen(_, _)
RunLen(s, i) ==
    IF i <= Len(s) /\ KeyChar(s[i]) THEN 1 + RunLen(s, i + 1) ELSE 0

\* chatMessage.match(/[ A-Z0-9(em-dash)-]{5,}/g): the matches from index i on
RECURSIVE MatchesFrom(_, _)
MatchesFrom(s, i) ==
    IF i > Len(s) THEN << >>
    ELSE IF RunLen(s, i) >= MinKeyLen
         THEN << SubSeq(s, i, i + RunLen(s, i) - 1) >>
                  \o MatchesFrom(s, i + RunLen(s, i))
         ELSE MatchesFrom(s, i + 1)

\* String.prototype.match with a global pattern: null when nothing matches
match(s) == IF MatchesFrom(s, 1) = << >> THEN Null ELSE MatchesFrom(s, 1)

\* parseCdKey(chatMessage): probalyKeys.length raises a TypeError on null
parseCdKeyLast(chatMessage) ==
    LET probalyKeys == match(chatMessage)
    IN  IF probalyKeys = Null
        THEN [ throws |-> TRUE, cdKey |-> Undefined ]
        ELSE IF Len(probalyKeys) > 0
             THEN [ throws |-> FALSE,
                    cdKey |-> trim(probalyKeys[Len(probalyKeys)]) ]
             ELSE [ throws |-> FALSE, cdKey |-> Undefined ]
parseCdKey(chatMessage) ==
    LET probalyKeys == match(chatMessage)
    IN  IF probalyKeys = Null
        THEN [ throws |-> TRUE, cdKey |-> Undefined ]
        ELSE IF Len(probalyKeys) > 0
             THEN [ throws |-> FALSE, cdKey |-> trim(probalyKeys[1]) ]
             ELSE [ throws |-> FALSE, cdKey |-> Undefined ]

\* eventsFilter of the g2keys handler: the loop from index i on, lastMsg = last
RECURSIVE TextFilterNoDedup(_, _, _)
TextFilterNoDedup(us, i, last) ==
    IF i > Len(us) THEN [ msg |-> Undefined, lastMsg |-> last ]
    ELSE IF us[i].kind # "updateNewChannelMessage"
              \/ us[i].channel_id # G2KeysChatId
         THEN TextFilterNoDedup(us, i + 1, last)
         ELSE [ msg |-> us[i].message, lastMsg |-> us[i].message ]
RECURSIVE TextFilterStaleLast(_, _, _)
TextFilterStaleLast(us, i, last) ==
    IF i > Len(us) THEN [ msg |-> Undefined, lastMsg |-> last ]
    ELSE IF us[i].kind # "updateNewChannelMessage"
              \/ us[i].channel_id # G2KeysChatId
         THEN TextFilterStaleLast(us, i + 1, last)
         ELSE IF last # us[i].message
         THEN [ msg |-> us[i].message, lastMsg |-> last ]
         ELSE TextFilterStaleLast(us, i + 1, last)
RECURSIVE TextFilterAnyChannel(_, _, _)
TextFilterAnyChannel(us, i, last) ==
    IF i > Len(us) THEN [ msg |-> Undefined, lastMsg |-> last ]
    ELSE IF us[i].kind # "updateNewChannelMessage"
         THEN TextFilterAnyChannel(us, i + 1, last)
         ELSE IF last # us[i].message
         THEN [ msg |-> us[i].message, lastMsg |-> us[i].message ]
         ELSE TextFilterAnyChannel(us, i + 1, last)
RECURSIVE TextFilterFrom(_, _, _)
TextFilterFrom(us, i, last) ==
    IF i > Len(us) THEN [ msg |-> Undefined, lastMsg |-> last ]
    ELSE IF us[i].kind # "updateNewChannelMessage"
         THEN TextFilterFrom(us, i + 1, last)
         ELSE IF us[i].channel_id # G2KeysChatId
         THEN TextFilterFrom(us, i + 1, last)
         ELSE IF last # us[i].message
         THEN [ msg |-> us[i].message, lastMsg |-> us[i].message ]
         ELSE TextFilterFrom(us, i + 1, last)

\* eventsFilter(eventData) of the g2keys handler
TextEventsFilter(eventData, last) ==
    IF eventData.kind # "updates"
    THEN [ msg |-> Undefined, lastMsg |-> last ]
    ELSE TextFilterFrom(eventData.updates, 1, last)

-----------------------------------------------------------------------------
(* The freebie_steam handler: eventsFilter, the promise chain, recognice *)

NoFile ==
    [ found |-> FALSE, throws |-> FALSE, location |-> "none", size |-> 0,
      id |-> 0 ]

\* eventsFilter of the freebie_steam handler: the loop from index i on.
\* With an empty size list `last` is undefined and last.location raises.
RECURSIVE ImageFilterFirstSize(_, _)
ImageFilterFirstSize(us, i) ==
    IF i > Len(us) THEN NoFile
    ELSE IF us[i].kind # "updateNewChannelMessage"
         THEN ImageFilterFirstSize(us, i + 1)
         ELSE IF us[i].channel_id # FreebieChatId
         THEN ImageFilterFirstSize(us, i + 1)
         ELSE IF us[i].message # EmptyBody \/ us[i].media = "none"
                   \/ us[i].media # "messageMediaPhoto"
         THEN ImageFilterFirstSize(us, i + 1)
         ELSE IF us[i].photo.sizes = << >>
         THEN [ NoFile EXCEPT !.throws = TRUE ]
         ELSE LET last == us[i].photo.sizes[1]
              IN  [ found |-> TRUE, throws |-> FALSE,
                    location |-> last.location, size |-> last.size,
                    id |-> us[i].photo.id ]
RECURSIVE ImageFilterAnyCaption(_, _)
ImageFilterAnyCaption(us, i) ==
    IF i > Len(us) THEN NoFile
    ELSE IF us[i].kind # "updateNewChannelMessage"
         THEN ImageFilterAnyCaption(us, i + 1)
         ELSE IF us[i].channel_id # FreebieChatId
         THEN ImageFilterAnyCaption(us, i + 1)
         ELSE IF us[i].media = "none" \/ us[i].media # "messageMediaPhoto"
         THEN ImageFilterAnyCaption(us, i + 1)
         ELSE IF us[i].photo.sizes = << >>
         THEN [ NoFile EXCEPT !.throws = TRUE ]
         ELSE LET last == us[i].photo.sizes[Len(us[i].photo.sizes)]
              IN  [ found |-> TRUE, throws |-> FALSE,
                    location |-> last.location, size |-> last.size,
                    id |-> us[i].photo.id ]
RECURSIVE ImageFilterLastQualifying(_, _)
ImageFilterLastQualifying(us, i) ==
    IF i > Len(us) THEN NoFile
    ELSE IF us[i].kind # "updateNewChannelMessage"
              \/ us[i].channel_id # FreebieChatId
              \/ us[i].message # EmptyBody
              \/ us[i].media # "messageMediaPhoto"
         THEN ImageFilterLastQualifying(us, i + 1)
         ELSE IF ImageFilterLastQualifying(us, i + 1).found
         THEN ImageFilterLastQualifying(us, i + 1)
         ELSE LET last == us[i].photo.sizes[Len(us[i].photo.sizes)]
              IN  [ found |-> TRUE, throws |-> FALSE,
                    location |-> last.location, size |-> last.size,
                    id |-> us[i].photo.id ]
RECURSIVE ImageFilterFrom(_, _)
ImageFilterFrom(us, i) ==
    IF i > Len(us) THEN NoFile
    ELSE IF us[i].kind # "updateNewChannelMessage"
         THEN ImageFilterFrom(us, i + 1)
         ELSE IF us[i].channel_id # FreebieChatId
         THEN ImageFilterFrom(us, i + 1)
         ELSE IF us[i].message # EmptyBody \/ us[i].media = "none"
                   \/ us[i].media # "messageMediaPhoto"
         THEN ImageFilterFrom(us, i + 1)
         ELSE IF us[i].photo.sizes = << >>
         THEN [ NoFile EXCEPT !.throws = TRUE ]
         ELSE LET last == us[i].photo.sizes[Len(us[i].photo.sizes)]
              IN  [ found |-> TRUE, throws |-> FALSE,
                    location |-> last.location, size |-> last.size,
                    id |-> us[i].photo.id ]

\* eventsFilter(eventData) of the freebie_steam handler
ImageEventsFilter(eventData) ==
    IF eventData.kind # "updates" THEN NoFile
    ELSE ImageFilterFrom(eventData.updates, 1)

\* \w
WordChar(c) == c \in (Upper \cup Lower \cup Digits \cup { "_" })

\* the character class [^\w(em-dash)-] negated: the characters that are kept
KeptByFilter(c) == WordChar(c) \/ c \in { EmDash, "-" }

\* filterCdKeyText(cdKey)
filterKeepEmDash(cdKey) == SelectSeq(cdKey, KeptByFilter)
filterDashToSpace(cdKey) ==
    LET kept == SelectSeq(cdKey, KeptByFilter)
    IN  [ i \in DOMAIN kept |->
            IF kept[i] \in { EmDash, "-" } THEN " " ELSE kept[i] ]
filterCdKeyText(cdKey) ==
    LET kept == SelectSeq(cdKey, KeptByFilter)
    IN  [ i \in DOMAIN kept |->
            IF kept[i] \in { EmDash, "-" } THEN "-" ELSE kept[i] ]

\* What tesseract.process hands to its callback: an error, or the text
OcrError == << "error" >>
OcrTexts == { << "A","B","1",EmDash,"c"," ","D","\n" >> }

-----------------------------------------------------------------------------
(* telegram/event-handler.js: the dispatcher, and the handlers' listeners *)

\* The state a listener reads and writes, with the record of the delivery
EmitStart(ev) ==
    [ lastMsg |-> lastMsg, calls |-> calls, runs |-> runs,
      d |-> [ event |-> ev, ran |-> << >>, threw |-> FALSE,
              textMsg |-> Undefined, fileFound |-> FALSE,
              activated |-> << >> ] ]

\* The listener of the g2keys handler
G2KeysListener(ev, st) ==
    LET f == TextEventsFilter(ev, st.lastMsg)
        p == parseCdKey(f.msg)
        s1 == [ st EXCEPT !.lastMsg = f.lastMsg,
                          !.d.ran = Append(@, G2Keys),
                          !.d.textMsg = f.msg ]
    IN  IF f.msg = Undefined THEN s1
        ELSE IF p.throws THEN [ s1 EXCEPT !.d.threw = TRUE ]
        ELSE IF p.cdKey = Undefined THEN s1
        ELSE [ s1 EXCEPT
                 !.calls = Append(@, activate(KeyActivatorJs, G2Keys, p.cdKey,
                                              isReady(KeyActivatorJs))),
                 !.d.activated = Append(@, p.cdKey) ]

\* The listener of the freebie_steam handler; the first step of its chain,
\* Telegram.loadImage(fileInfo.location), runs before any other event
FreebieSteamListener(ev, st) ==
    LET f == ImageEventsFilter(ev)
        s1 == [ st EXCEPT !.d.ran = Append(@, FreebieSteam) ]
    IN  IF f.throws THEN [ s1 EXCEPT !.d.threw = TRUE ]
        ELSE IF ~f.found THEN s1
        ELSE [ s1 EXCEPT
                 !.d.fileFound = TRUE,
                 !.runs = Append(@, [ id |-> f.id, location |-> f.location,
                                      size |-> f.size, stage |-> "fetching",
                                      steps |-> << "fetch" >>,
                                      file |-> 0, text |-> << >>,
                                      call |-> 0 ]) ]

Listener(h, ev, st) ==
    IF h = G2Keys THEN G2KeysListener(ev, st)
    ELSE FreebieSteamListener(ev, st)

\* eventEmitter.emit("event", data.message): the listeners in the order of
\* their registration; an exception a listener raises ends the emit
RECURSIVE Emit(_, _, _, _)
Emit(hs, i, ev, st) ==
    IF i > Len(hs) \/ st.d.threw THEN st
    ELSE Emit(hs, i + 1, ev, Listener(hs[i], ev, st))

\* untypedMessage.observe callback: one inbound event is delivered
ObserveEmittingTwice(ev) ==
    /\ Alive
    /\ startup.observing
    /\ nEvents < MaxEvents
    /\ LET st == Emit(handlers, 1, ev, Emit(handlers, 1, ev, EmitStart(ev)))
       IN  /\ lastMsg' = st.lastMsg
           /\ calls' = st.calls
           /\ runs' = st.runs
           /\ dispatch' = st.d
    /\ nEvents' = nEvents + 1
    /\ UNCHANGED << session, handlers, eval, startup, tg >>
Observe(ev) ==
    /\ Alive
    /\ startup.observing
    /\ nEvents < MaxEvents
    /\ LET st == Emit(handlers, 1, ev, EmitStart(ev))
       IN  /\ lastMsg' = st.lastMsg
           /\ calls' = st.calls
           /\ runs' = st.runs
           /\ dispatch' = st.d
    /\ nEvents' = nEvents + 1
    /\ UNCHANGED << session, handlers, eval, startup, tg >>

\* Telegram.loadImage settles; on success saveImage writes the file
\* imgDirPath + id + ".jpg" and recognice starts tesseract. steps lists the
\* stages the run has started, file is the id the scratch file is named by
FetchDone(r, outcome) ==
    /\ Alive
    /\ r \in DOMAIN runs
    /\ runs[r].stage = "fetching"
    /\ runs' = [ runs EXCEPT
                   ![r].stage = IF outcome = "ok" THEN "ocr" ELSE outcome,
                   ![r].steps =
                      IF outcome = "ok" THEN @ \o << "save", "ocr" >>
                      ELSE IF outcome = "save_failed" THEN @ \o << "save" >>
                      ELSE @,
                   ![r].file = IF outcome = "ok" THEN runs[r].id ELSE @ ]
    /\ UNCHANGED << session, calls, handlers, lastMsg, nEvents, dispatch, eval,
                    startup, tg >>

\* tesseract.process calls back: utils.error is not a function of utils, so
\* the error branch raises inside the callback; the text branch resolves
\* with filterCdKeyText(text) and the chain calls KeyActivator.activate
OcrDoneActivatingOnError(r, text) ==
    /\ Alive
    /\ r \in DOMAIN runs
    /\ runs[r].stage = "ocr"
    /\ calls' = Append(calls,
                       activate(KeyActivatorJs, FreebieSteam,
                                IF text = OcrError THEN << >>
                                ELSE filterCdKeyText(text),
                                isReady(KeyActivatorJs)))
    /\ runs' = [ runs EXCEPT
                   ![r].stage = IF text = OcrError THEN "uncaught"
                                ELSE "activating",
                   ![r].steps = @ \o << "normalize", "activate" >>,
                   ![r].text = text,
                   ![r].call = Len(calls) + 1 ]
    /\ UNCHANGED << session, handlers, lastMsg, nEvents, dispatch, eval,
                    startup, tg >>
OcrDone(r, text) ==
    /\ Alive
    /\ r \in DOMAIN runs
    /\ runs[r].stage = "ocr"
    /\ IF text = OcrError
       THEN /\ runs' = [ runs EXCEPT ![r].stage = "uncaught" ]
            /\ calls' = calls
       ELSE /\ calls' = Append(calls,
                          activate(KeyActivatorJs, FreebieSteam,
                                   filterCdKeyText(text),
                                   isReady(KeyActivatorJs)))
            /\ runs' = [ runs EXCEPT
                           ![r].stage = "activating",
                           ![r].steps = @ \o << "normalize", "activate" >>,
                           ![r].text = text,
                           ![r].call = Len(calls) + 1 ]
    /\ UNCHANGED << session, handlers, lastMsg, nEvents, dispatch, eval,
                    startup, tg >>

-----------------------------------------------------------------------------
(* Specifications *)

NoDispatch ==
    [ event |-> NoEvent, ran |-> << >>, threw |-> FALSE,
      textMsg |-> Undefined, fileFound |-> FALSE, activated |-> << >> ]

\* index.js has run to "Launch complete": KeyActivator.init resolved, both
\* handlers are registered (fs.readdir fixes their order), the event stream
\* is observed
ReadySession ==
    [ SessionInit EXCEPT !.ready = TRUE, !.init = "resolved",
                         !.responses = 1, !.code = EResultOK ]

\* index.js after "Launch complete": the files found are registered
Launched(files) ==
    [ stage |-> "running",
      steps |-> << "steam", "telegram", "handlers", "subscribe" >>,
      exit |-> "none", loadHandlers |-> "resolved", files |-> files,
      count |-> Len(files), observing |-> TRUE ]

\* Telegram.init resolved on its first authorization check
TgReady ==
    [ TgIdle EXCEPT !.init = "resolved",
                    !.requests = << "users.getFullUser" >>,
                    !.checks = << "true" >>, !.settles = 1 ]

Init ==
    /\ session = [ i \in Impls |->
                     IF i = KeyActivatorJs THEN ReadySession ELSE SessionInit ]
    /\ calls = << >>
    /\ handlers \in { << FreebieSteam, G2Keys >>, << G2Keys, FreebieSteam >> }
    /\ lastMsg = EmptyBody
    /\ runs = << >>
    /\ nEvents = 0
    /\ dispatch = NoDispatch
    /\ eval = NoEval
    /\ startup = Launched(handlers)
    /\ tg = TgReady

Next ==
    \/ \E ev \in InboundEvents : Observe(ev)
    \/ \E r \in DOMAIN runs :
         \E o \in { "ok", "fetch_failed", "save_failed" } : FetchDone(r, o)
    \/ \E r \in DOMAIN runs :
         \E t \in OcrTexts \cup { OcrError } : OcrDone(r, t)
    \/ \E i \in DOMAIN calls :
         \E resp \in PipelineResponses : PurchaseResponse(i, resp)

Spec == Init /\ [][Next]_vars

\* The modules as loaded, before init is called, used by a direct caller
ModuleInit ==
    /\ session = [ i \in Impls |-> SessionInit ]
    /\ calls = << >>
    /\ handlers = << >>
    /\ lastMsg = EmptyBody
    /\ runs = << >>
    /\ nEvents = 0
    /\ dispatch = NoDispatch
    /\ eval = NoEval
    /\ startup = NoStartup
    /\ tg = TgIdle

ModuleNext(impl) ==
    \/ InitCall(impl)
    \/ Connected(impl)
    \/ \E code \in LogOnResults : LogOnResponse(impl, code)
    \/ \E fatal \in BOOLEAN : ConnectionLost(impl, fatal)
    \/ \E k \in RawKeys : ActivateCall(impl, k)
    \/ \E i \in DOMAIN calls :
         \E resp \in PurchaseResponses : PurchaseResponse(i, resp)

ActivatorNext == ModuleNext(KeyActivatorJs)
SteamJsNext == ModuleNext(SteamJs)

\* steam/key_activator.js used by a direct caller
SpecActivator == ModuleInit /\ [][ActivatorNext]_vars

\* steam/steam.js used by a direct caller
SpecSteamJs == ModuleInit /\ [][SteamJsNext]_vars

-----------------------------------------------------------------------------
(* index.js from its first step on: the startup chain *)

\* The most calls of login(phone) one Telegram.init makes in this model
MaxLogins == 1

\* A call of telegram.app made by Telegram.init settles: result is "ok" or
\* the type of the error; the chain of index.js goes on when init settles
TgResponse(result) ==
    /\ Alive
    /\ tg.pending # "none"
    /\ LET t == IF tg.pending = "users.getFullUser"
                THEN TgCheckDone(tg, result)
                ELSE TgLoginStep(tg, result)
       IN  /\ t.logins > tg.logins => tg.logins < MaxLogins
           /\ tg' = [ t EXCEPT !.result = result ]
           /\ startup' = AfterTgInit(startup, t)
    /\ UNCHANGED << session, calls, handlers, lastMsg, runs, nEvents,
                    dispatch, eval >>

\* What fs.readdir(handlersFolder) calls back with: the files found, or an
\* error and no files
ReaddirResults ==
    { << >>, << FreebieSteam >>, << FreebieSteam, G2Keys >>,
      << G2Keys, FreebieSteam >>, Undefined }

\* The callback of fs.readdir in loadHandlers; when loadHandlers resolves the
\* chain of index.js runs startEventHandler, which observes the event stream
ReaddirDoneIgnoringEmpty(files) ==
    /\ Alive
    /\ startup.loadHandlers = "pending"
    /\ IF files = Undefined
       THEN /\ startup' = [ startup EXCEPT !.stage = "crashed" ]
            /\ handlers' = handlers
       ELSE /\ handlers' = handlers \o files
            /\ startup' =
                 [ StartStage([ startup EXCEPT !.loadHandlers = "resolved",
                                               !.files = files,
                                               !.count = Len(files) ],
                              "subscribe")
                     EXCEPT !.stage = "running", !.observing = TRUE ]
    /\ UNCHANGED << session, calls, lastMsg, runs, nEvents, dispatch, eval,
                    tg >>
ReaddirDone(files) ==
    /\ Alive
    /\ startup.loadHandlers = "pending"
    /\ IF files = Undefined
       THEN /\ startup' = [ startup EXCEPT !.stage = "crashed" ]
            /\ handlers' = handlers
       ELSE IF Len(files) = 0
       THEN /\ startup' = Exit([ startup EXCEPT !.loadHandlers = "rejected",
                                                !.files = files ])
            /\ handlers' = handlers
       ELSE /\ handlers' = handlers \o files
            /\ startup' =
                 [ StartStage([ startup EXCEPT !.loadHandlers = "resolved",
                                               !.files = files,
                                               !.count = Len(files) ],
                              "subscribe")
                     EXCEPT !.stage = "running", !.observing = TRUE ]
    /\ UNCHANGED << session, calls, lastMsg, runs, nEvents, dispatch, eval,
                    tg >>

\* The inbound events of the startup specification
StartupEvents ==
    { Updates(<< TextUpdate(G2KeysChatId, KeyXY) >>),
      Updates(<< MediaUpdate(FreebieChatId, EmptyBody, "messageMediaPhoto") >>) }

\* index.js has run its first step: KeyActivator.init is called and has
\* called client.connect()
StartupInit ==
    /\ session = [ i \in Impls |->
                     IF i = KeyActivatorJs
                     THEN [ SessionInit EXCEPT !.init = "pending",
                                               !.connecting = 1 ]
                     ELSE SessionInit ]
    /\ calls = << >>
    /\ handlers = << >>
    /\ lastMsg = EmptyBody
    /\ runs = << >>
    /\ nEvents = 0
    /\ dispatch = NoDispatch
    /\ eval = NoEval
    /\ startup = StartStage(NoStartup, "steam")
    /\ tg = TgIdle

StartupNext ==
    \/ Connected(KeyActivatorJs)
    \/ \E code \in LogOnResults : LogOnResponse(KeyActivatorJs, code)
    \/ \E result \in { "ok" } \cup TgErrors : TgResponse(result)
    \/ \E files \in ReaddirResults : ReaddirDone(files)
    \/ \E ev \in StartupEvents : Observe(ev)

\* index.js from the call of KeyActivator.init on
SpecStartup == StartupInit /\ [][StartupNext]_vars

\* The record of Telegram.init without its histories: the requests sent, the
\* results of the checks and the number of logins grow with every round of
\* connect() and _login() and are read by no step
TgForget(t) ==
    [ t EXCEPT !.requests = << >>, !.checks = << >>, !.logins = 0 ]

\* A call of telegram.app made by Telegram.init settles, with no bound on the
\* rounds of connect() and _login()
TgResponseUnbounded(result) ==
    /\ Alive
    /\ tg.pending # "none"
    /\ LET t == IF tg.pending = "users.getFullUser"
                THEN TgCheckDone(tg, result)
                ELSE TgLoginStep(tg, result)
       IN  /\ tg' = TgForget([ t EXCEPT !.result = result ])
           /\ startup' = AfterTgInit(startup, t)
    /\ UNCHANGED << session, calls, handlers, lastMsg, runs, nEvents,
                    dispatch, eval >>

TgLiveNext ==
    \/ Connected(KeyActivatorJs)
    \/ \E code \in LogOnResults : LogOnResponse(KeyActivatorJs, code)
    \/ \E result \in { "ok" } \cup TgErrors : TgResponseUnbounded(result)
    \/ \E files \in ReaddirResults : ReaddirDone(files)
    \/ \E ev \in StartupEvents : Observe(ev)

\* index.js from the call of KeyActivator.init on, where every call of
\* telegram.app that Telegram.init makes returns or fails
SpecTgLive ==
    /\ StartupInit
    /\ [][TgLiveNext]_vars
    /\ WF_vars(\E result \in { "ok" } \cup TgErrors :
                 TgResponseUnbounded(result))

-----------------------------------------------------------------------------
(* Unit harnesses: one function of a handler called by a direct caller *)

\* An update of the kind updateNewMessage (a private chat's message)
NewMessage(chat, body) ==
    [ kind |-> "updateNewMessage", channel_id |-> chat,
      message |-> body, media |-> "none", photo |-> NoPhoto ]

\* The events of the given top-level kind with one or two of the updates us
EventsOf(kind, us) ==
    { [ kind |-> kind, updates |-> << u >> ] : u \in us }
      \cup { [ kind |-> kind, updates |-> << u, v >> ] : u, v \in us }

\* The updates the g2keys filter is called with
TextFilterUpdates ==
    { TextUpdate(G2KeysChatId, KeyXY),
      TextUpdate(G2KeysChatId, Hello),
      TextUpdate(OtherChatId, KeyAB),
      TextUpdate(FreebieChatId, KeyAB),
      NewMessage(G2KeysChatId, KeyAB),
      ReadInbox(G2KeysChatId) }

\* The events the g2keys filter is called with
TextFilterEvents ==
    EventsOf("updates", TextFilterUpdates)
      \cup { Updates(<< >>) }
      \cup EventsOf("updatesCombined", { TextUpdate(G2KeysChatId, KeyAB) })
      \cup EventsOf("updateShort", { TextUpdate(G2KeysChatId, KeyAB) })

\* eventsFilter(eventData) of the g2keys handler, called by a direct caller
EvalTextFilter(ev) ==
    /\ LET f == TextEventsFilter(ev, lastMsg)
       IN  /\ eval' = [ fn |-> "g2keys.eventsFilter", arg |-> ev,
                        out |-> f.msg ]
           /\ lastMsg' = f.lastMsg
    /\ UNCHANGED << session, calls, handlers, runs, nEvents, dispatch,
                    startup, tg >>

TextFilterNext == \E ev \in TextFilterEvents : EvalTextFilter(ev)

\* The g2keys filter with its lastMsg, called by a direct caller
SpecTextFilter == ModuleInit /\ [][TextFilterNext]_vars

\* The most messages the g2keys listener is called with by its harness
MaxMessages == 4

\* The bodies of the messages of the listener's harness
ListenerBodies == { KeyXY, KeyAB, Hello }

\* The 'event' listener of the g2keys handler, called by a direct caller with
\* one new message of its channel; eval keeps the bodies it was called with
\* and what eventsFilter returned for each
EvalTextListener(body) ==
    /\ Len(eval.arg) < MaxMessages
    /\ LET ev == Updates(<< TextUpdate(G2KeysChatId, body) >>)
           st == G2KeysListener(ev, EmitStart(ev))
       IN  /\ lastMsg' = st.lastMsg
           /\ calls' = st.calls
           /\ dispatch' = st.d
           /\ eval' = [ fn |-> "g2keys.listener",
                        arg |-> Append(eval.arg, body),
                        out |-> Append(eval.out, st.d.textMsg) ]
    /\ UNCHANGED << session, handlers, runs, nEvents, startup, tg >>

TextListenerNext == \E body \in ListenerBodies : EvalTextListener(body)

\* The g2keys listener on a ready session, called by a direct caller
SpecTextListener == Init /\ [][TextListenerNext]_vars

\* Pieces of message bodies: two runs of the pattern's characters, single
\* characters of the pattern, and text the pattern does not match
BodyParts ==
    { << "A","B","1","2","C" >>, << "Z","9",EmDash,"7","Q" >>,
      << " " >>, << "-" >>, << "k","e","y" >>, << ":" >> }

\* The most parts a message body of the parseCdKey harness is made of
MaxParts == 3

\* The strings made of at most n of the given parts
RECURSIVE Concats(_, _)
Concats(parts, n) ==
    IF n = 0 THEN { << >> }
    ELSE Concats(parts, n - 1)
           \cup { a \o b : a \in parts, b \in Concats(parts, n - 1) }

\* "Get your key: AB12C-DE34F-GH56I now!"
GetYourKey ==
    << "G","e","t"," ","y","o","u","r"," ","k","e","y",":"," ",
       "A","B","1","2","C","-","D","E","3","4","F","-","G","H","5","6","I",
       " ","n","o","w","!" >>

\* The message bodies parseCdKey is called with
ParseInputs == Concats(BodyParts, MaxParts) \cup { GetYourKey }

\* parseCdKey(chatMessage), called by a direct caller
EvalParse(s) ==
    /\ eval = NoEval
    /\ eval' = [ fn |-> "parseCdKey", arg |-> s, out |-> parseCdKey(s) ]
    /\ UNCHANGED << session, calls, handlers, lastMsg, runs, nEvents,
                    dispatch, startup, tg >>

ParseNext == \E s \in ParseInputs : EvalParse(s)

\* parseCdKey called by a direct caller
SpecParse == ModuleInit /\ [][ParseNext]_vars

\* Photos: sizes in descending order, and one size only
PhotoDesc ==
    [ id |-> 78,
      sizes |-> << [ location |-> "loc-b", size |-> 200 ],
                   [ location |-> "loc-a", size |-> 10 ] >> ]
Photo1 == [ id |-> 79, sizes |-> << [ location |-> "loc-o", size |-> 90 ] >> ]

\* updateNewChannelMessage with the given photo as its media
PhotoUpdate(chat, caption, photo) ==
    [ MediaUpdate(chat, caption, "messageMediaPhoto") EXCEPT !.photo = photo ]

\* The updates the freebie_steam filter is called with
ImageFilterUpdates ==
    { PhotoUpdate(FreebieChatId, EmptyBody, Photo3),
      PhotoUpdate(FreebieChatId, EmptyBody, PhotoDesc),
      PhotoUpdate(FreebieChatId, EmptyBody, Photo1),
      PhotoUpdate(FreebieChatId, KeyXY, Photo3),
      MediaUpdate(FreebieChatId, EmptyBody, "messageMediaDocument"),
      TextUpdate(FreebieChatId, EmptyBody),
      TextUpdate(FreebieChatId, KeyXY),
      PhotoUpdate(OtherChatId, EmptyBody, Photo3),
      PhotoUpdate(G2KeysChatId, EmptyBody, Photo1),
      [ PhotoUpdate(FreebieChatId, EmptyBody, Photo1)
          EXCEPT !.kind = "updateNewMessage" ],
      ReadInbox(FreebieChatId) }

\* The events the freebie_steam filter is called with
ImageFilterEvents ==
    EventsOf("updates", ImageFilterUpdates)
      \cup { Updates(<< >>) }
      \cup EventsOf("updateShort",
                    { PhotoUpdate(FreebieChatId, EmptyBody, Photo3) })

\* eventsFilter(eventData) of the freebie_steam handler, called by a direct
\* caller
EvalImageFilter(ev) ==
    /\ eval = NoEval
    /\ eval' = [ fn |-> "freebie_steam.eventsFilter", arg |-> ev,
                 out |-> ImageEventsFilter(ev) ]
    /\ UNCHANGED << session, calls, handlers, lastMsg, runs, nEvents,
                    dispatch, startup, tg >>

ImageFilterNext == \E ev \in ImageFilterEvents : EvalImageFilter(ev)

\* The freebie_steam filter called by a direct caller
SpecImageFilter == ModuleInit /\ [][ImageFilterNext]_vars

\* Characters of OCR output: of the pattern of parseCdKey, and others
OcrChars == { "A", "9", " ", "-", EmDash, "a", "_", "\n", "!" }

\* The longest text of the filterCdKeyText harness
MaxTextLen == 3

\* The texts of at most n characters
RECURSIVE TextsUpTo(_)
TextsUpTo(n) ==
    IF n = 0 THEN { << >> }
    ELSE TextsUpTo(n - 1)
           \cup { << c >> \o t : c \in OcrChars, t \in TextsUpTo(n - 1) }

\* filterCdKeyText(cdKey), called by a direct caller
EvalNormalize(text) ==
    /\ eval = NoEval
    /\ eval' = [ fn |-> "filterCdKeyText", arg |-> text,
                 out |-> filterCdKeyText(text) ]
    /\ UNCHANGED << session, calls, handlers, lastMsg, runs, nEvents,
                    dispatch, startup, tg >>

NormalizeNext == \E text \in TextsUpTo(MaxTextLen) : EvalNormalize(text)

\* filterCdKeyText called by a direct caller
SpecNormalize == ModuleInit /\ [][NormalizeNext]_vars

\* Message bodies whose key holds a space, and an em-dash
KeySpaced == << "A","B","1","2","C"," ","D","E","3","4","F" >>
KeyEmDash == << "Q","W","7",EmDash,"R","T","8" >>

\* The inbound events of the handlers' harness
HandlerEvents ==
    { Updates(<< TextUpdate(G2KeysChatId, KeySpaced) >>),
      Updates(<< TextUpdate(G2KeysChatId, KeyEmDash) >>),
      Updates(<< TextUpdate(G2KeysChatId, KeyXY) >>),
      Updates(<< PhotoUpdate(FreebieChatId, EmptyBody, Photo1) >>),
      Updates(<< TextUpdate(G2KeysChatId, KeyXY),
                 TextUpdate(G2KeysChatId, KeySpaced) >>),
      Updates(<< PhotoUpdate(FreebieChatId, EmptyBody, Photo1),
                 PhotoUpdate(FreebieChatId, EmptyBody, Photo3) >>) }

\* The texts tesseract recognises in the handlers' harness
HandlerOcrTexts ==
    { << "A","B","_","1","2"," ","\n" >>, << "x","y",EmDash,"7","8","\n" >> }

HandlersNext ==
    \/ \E ev \in HandlerEvents : Observe(ev)
    \/ \E r \in DOMAIN runs :
         \E o \in { "ok", "fetch_failed", "save_failed" } : FetchDone(r, o)
    \/ \E r \in DOMAIN runs :
         \E t \in HandlerOcrTexts \cup { OcrError } : OcrDone(r, t)

\* The two handlers on a ready session, up to their calls of activate
SpecHandlers == Init /\ [][HandlersNext]_vars

-----------------------------------------------------------------------------
(* Properties *)

\* The step appends one call to calls, leaving the earlier calls as they were
NewCall == Len(calls') = Len(calls) + 1 /\ SubSeq(calls', 1, Len(calls)) = calls

\* The calls whose redemption request has no response yet
InFlight == { i \in DOMAIN calls : calls[i].inFlight }

\* The step delivers the inbound event ev
Delivers(ev) == nEvents' = nEvents + 1 /\ dispatch'.event = ev

\* An 'updates' event with one new message of the g2keys channel
TextEvent(body) == Updates(<< TextUpdate(G2KeysChatId, body) >>)
TextBodies == { KeyXY, KeyAB, Hello, EmptyBody }

\* C1: activate called while _ready is false rejects with EC_NOT_INITED and
\* issues no redemption request, then or later.
C1_NotReadyRejects ==
    /\ [][ (NewCall /\ ~isReady(KeyActivatorJs)) =>
             LET c == calls'[Len(calls')]
             IN  /\ c.promise = "rejected"
                 /\ c.error = EC_NOT_INITED
                 /\ c.requests = 0
                 /\ ~c.inFlight ]_vars
    /\ [][ \A i \in DOMAIN calls :
             calls[i].error = EC_NOT_INITED =>
               /\ calls'[i].requests = 0
               /\ calls'[i].error = EC_NOT_INITED ]_vars

C1_Witness ==
    \E i \in DOMAIN calls :
      /\ calls[i].promise = "rejected"
      /\ calls[i].error = EC_NOT_INITED
      /\ calls[i].requests = 0
      /\ ~isReady(KeyActivatorJs)

\* C2: at most one redemption request is in flight at any time.
C2_OneInFlight == Cardinality(InFlight) <= 1

\* C3: a call of activate on a ready session issues exactly one redemption
\* request, and a response, OK or not, is followed by no further request.
C3_ExactlyOneRequest ==
    /\ [][ (NewCall /\ isReady(KeyActivatorJs)) =>
             LET c == calls'[Len(calls')]
             IN  c.requests = 1 /\ c.inFlight ]_vars
    /\ [][ \A i \in DOMAIN calls :
             /\ calls'[i].requests = calls[i].requests
             /\ (calls[i].resp # << >> => ~calls'[i].inFlight)
             /\ (calls[i].inFlight /\ calls'[i].resp # << >>
                   => ~calls'[i].inFlight) ]_vars

C3_Witness ==
    \E i \in DOMAIN calls :
      /\ calls[i].resp # << >>
      /\ calls[i].resp[1].eresult # EResultOK
      /\ calls[i].promise = "rejected"
      /\ calls[i].requests = 1
      /\ ~calls[i].inFlight

\* C4: a non-OK response with detail code 15 makes activate reject with
\* EC_ACTIVATION_FAILED_ALREADY_ACTIVATED, and no other detail code does.
C4_AlreadyActivated ==
    \A i \in DOMAIN calls :
      (calls[i].resp # << >> /\ calls[i].resp[1].eresult # EResultOK) =>
        /\ calls[i].resp[1].purchase_result_details = 15 =>
             /\ calls[i].promise = "rejected"
             /\ calls[i].error = EC_ACTIVATION_FAILED_ALREADY_ACTIVATED
        /\ calls[i].error = EC_ACTIVATION_FAILED_ALREADY_ACTIVATED =>
             calls[i].resp[1].purchase_result_details = 15

\* C5: a non-OK response with detail code 9 or 14 makes activate reject with
\* an error kind of its own, not the generic EC_ACTIVATION_FAILED, and the
\* two kinds differ.
C5_OwnedAndInvalidDistinct ==
    \A i \in DOMAIN calls :
      (calls[i].resp # << >> /\ calls[i].resp[1].eresult # EResultOK
         /\ calls[i].resp[1].receipt # "absent"
         /\ calls[i].resp[1].purchase_result_details \in { 9, 14 }) =>
        /\ calls[i].promise = "rejected"
        /\ calls[i].error # EC_ACTIVATION_FAILED

\* C6: a non-OK response with a detail code other than 9, 14 and 15 (53
\* among them) makes activate reject with the generic EC_ACTIVATION_FAILED,
\* in key_activator.js and in steam.js.
C6_OtherCodesGeneric ==
    \A i \in DOMAIN calls :
      (calls[i].resp # << >> /\ calls[i].resp[1].eresult # EResultOK
         /\ calls[i].resp[1].purchase_result_details \notin { 9, 14, 15 }) =>
        /\ calls[i].promise = "rejected"
        /\ calls[i].error = EC_ACTIVATION_FAILED

\* C7: on a ready session activate sends the trimmed key in its own letter
\* case, resolves with that string on an OK response, and upper-cases the
\* key in the log only.
C7_TrimmedCasePreserved ==
    \A i \in DOMAIN calls :
      calls[i].requests > 0 =>
        /\ calls[i].sent = trim(calls[i].arg)
        /\ calls[i].shown = toUpperCase(calls[i].sent)
        /\ (calls[i].resp # << >> /\ calls[i].resp[1].eresult = EResultOK) =>
             /\ calls[i].promise = "resolved"
             /\ calls[i].value = trim(calls[i].arg)

\* C8: no exception leaves a handler's listener into the dispatcher's emit,
\* and none raised in a later stage of the handler's processing goes
\* uncaught.
C8_NoEscape ==
    /\ ~dispatch.threw
    /\ \A r \in DOMAIN runs : runs[r].stage # "uncaught"

\* C9: an 'updates' event with the one channel message "XXXXX-YYYYY" on the
\* g2keys channel makes the dispatch call activate exactly once, with
\* "XXXXX-YYYYY".
C9_ActivatedOnce ==
    [][ Delivers(TextEvent(KeyXY)) =>
          /\ NewCall
          /\ calls'[Len(calls')].arg = KeyXY
          /\ calls'[Len(calls')].caller = G2Keys
          /\ dispatch'.activated = << KeyXY >> ]_vars

\* C9 as amended: the same, unless "XXXXX-YYYYY" is the filter's lastMsg, and
\* then activate is not called.
C9_ActivatedOnceUnlessRepeated ==
    [][ Delivers(TextEvent(KeyXY)) =>
          IF lastMsg # KeyXY
          THEN /\ NewCall
               /\ calls'[Len(calls')].arg = KeyXY
               /\ calls'[Len(calls')].caller = G2Keys
               /\ dispatch'.activated = << KeyXY >>
          ELSE /\ calls' = calls
               /\ dispatch'.activated = << >> ]_vars

C9_Witness ==
    /\ dispatch.event = TextEvent(KeyXY)
    /\ dispatch.activated = << KeyXY >>
    /\ calls # << >>
    /\ calls[Len(calls)].arg = KeyXY
    /\ calls[Len(calls)].inFlight

\* C10: of two consecutive messages of the g2keys channel, a second one
\* identical to the first yields no extraction, and if the two differ both
\* yield extractions.
C10_Dedup ==
    [][ \A m1, m2 \in TextBodies :
          (dispatch.event = TextEvent(m1) /\ Delivers(TextEvent(m2))) =>
            IF m1 = m2
            THEN dispatch'.textMsg = Undefined
            ELSE dispatch.textMsg = m1 /\ dispatch'.textMsg = m2 ]_vars

\* C10 as amended: a second one identical to the first yields no extraction;
\* if the two differ the second yields an extraction, and the first yielded
\* one exactly if it differed from lastMsg when it arrived, which is the
\* body of the message before it (the empty string at the start).
C10_DedupAgainstLastMsg ==
    [][ \A m2 \in TextBodies :
          Delivers(TextEvent(m2)) =>
            /\ dispatch'.textMsg = (IF lastMsg = m2 THEN Undefined ELSE m2)
            /\ lastMsg' = m2
            /\ \A m1 \in TextBodies :
                 dispatch.event = TextEvent(m1) =>
                   /\ lastMsg = m1
                   /\ (m1 = m2 => dispatch'.textMsg = Undefined)
                   /\ (m1 # m2 => dispatch'.textMsg = m2) ]_vars

C10_Witness ==
    /\ nEvents = 2
    /\ Len(calls) = 1
    /\ calls[1].arg = KeyXY
    /\ dispatch.event = TextEvent(KeyXY)
    /\ dispatch.textMsg = Undefined
    /\ lastMsg = KeyXY

\* An update the g2keys filter is bound to: a new channel message of its channel
TextQualifies(u) ==
    u.kind = "updateNewChannelMessage" /\ u.channel_id = G2KeysChatId

\* C11: the text filter yields an extraction only from an
\* updateNewChannelMessage update of its configured channel; an event of
\* another top-level kind, or one with no such update, yields nothing and
\* leaves lastMsg as it was.
C11_TextFilterScope ==
    [][ \A ev \in TextFilterEvents :
          (eval'.fn = "g2keys.eventsFilter" /\ eval'.arg = ev) =>
            /\ eval'.out # Undefined =>
                  /\ ev.kind = "updates"
                  /\ \E i \in DOMAIN ev.updates :
                       /\ TextQualifies(ev.updates[i])
                       /\ ev.updates[i].message = eval'.out
            /\ (ev.kind # "updates"
                  \/ \A i \in DOMAIN ev.updates :
                       ~TextQualifies(ev.updates[i])) =>
                  /\ eval'.out = Undefined
                  /\ lastMsg' = lastMsg ]_vars

C11_Witness ==
    /\ eval.fn = "g2keys.eventsFilter"
    /\ eval.arg = Updates(<< TextUpdate(OtherChatId, KeyAB),
                             TextUpdate(G2KeysChatId, KeyXY) >>)
    /\ eval.out = KeyXY
    /\ lastMsg = KeyXY


\* s[i..j] is a maximal run of at least 5 characters of
\* {A-Z, 0-9, space, dash, em-dash}
IsRun(s, i, j) ==
    /\ 1 <= i /\ i <= j /\ j <= Len(s)
    /\ j - i + 1 >= 5
    /\ \A k \in i..j : s[k] \in ({ " ", "-", EmDash } \cup Upper \cup Digits)
    /\ i = 1 \/ s[i - 1] \notin ({ " ", "-", EmDash } \cup Upper \cup Digits)
    /\ j = Len(s)
         \/ s[j + 1] \notin ({ " ", "-", EmDash } \cup Upper \cup Digits)

\* t without the spaces at its two ends
StripSpaces(t) ==
    LET ns == { k \in DOMAIN t : t[k] # " " }
    IN  IF ns = { } THEN << >>
        ELSE SubSeq(t, CHOOSE k \in ns : \A l \in ns : k <= l,
                       CHOOSE k \in ns : \A l \in ns : k >= l)

\* "AB12C-DE34F-GH56I"
GetYourKeyKey == SubSeq(GetYourKey, 15, 31)

\* C12: for a body with a maximal run of 5 or more characters of
\* {A-Z, 0-9, space, dash, em-dash}, parseCdKey returns the leftmost such run
\* without the spaces around it; "Get your key: AB12C-DE34F-GH56I now!"
\* gives "AB12C-DE34F-GH56I".
C12_LeftmostRun ==
    eval.fn = "parseCdKey" =>
      /\ \A i, j \in DOMAIN eval.arg :
           (IsRun(eval.arg, i, j)
              /\ \A i2, j2 \in DOMAIN eval.arg :
                   IsRun(eval.arg, i2, j2) => i <= i2) =>
             /\ ~eval.out.throws
             /\ eval.out.cdKey = StripSpaces(SubSeq(eval.arg, i, j))
      /\ eval.arg = GetYourKey => eval.out.cdKey = GetYourKeyKey

C12_Witness ==
    /\ eval.fn = "parseCdKey"
    /\ eval.arg = << "A","B","1","2","C" >> \o << ":" >>
                   \o << "Z","9",EmDash,"7","Q" >>
    /\ eval.out.cdKey = << "A","B","1","2","C" >>

\* A photo message the freebie_steam filter is bound to: a new channel message
\* of its channel with empty text and a photo
ImageQualifies(u) ==
    /\ u.kind = "updateNewChannelMessage"
    /\ u.channel_id = FreebieChatId
    /\ u.message = << >>
    /\ u.media = "messageMediaPhoto"

\* The qualifying updates of the event the filter was called with
Qualifying ==
    IF eval.arg.kind # "updates" THEN { }
    ELSE { i \in DOMAIN eval.arg.updates :
             ImageQualifies(eval.arg.updates[i]) }

\* C13: for a qualifying photo message (the first of the event) the image
\* filter returns the location and size of the last element of the photo's
\* size list and the photo's id; with ascending sizes that is the largest
\* (sizes 10, 50, 200 give the size-200 entry).
C13_LastSize ==
    (eval.fn = "freebie_steam.eventsFilter" /\ Qualifying # { }) =>
      LET u == eval.arg.updates[CHOOSE i \in Qualifying :
                                  \A k \in Qualifying : i <= k]
          n == Len(u.photo.sizes)
      IN  /\ eval.out.found
          /\ eval.out.location = u.photo.sizes[n].location
          /\ eval.out.size = u.photo.sizes[n].size
          /\ eval.out.id = u.photo.id
          /\ (\A k \in 1..(n - 1) :
                 u.photo.sizes[k].size <= u.photo.sizes[k + 1].size) =>
                \A k \in 1..n : u.photo.sizes[k].size <= eval.out.size
          /\ [ k \in 1..n |-> u.photo.sizes[k].size ] = << 10, 50, 200 >> =>
                eval.out.size = 200 /\ eval.out.location = "loc-x"

C13_Witness ==
    /\ eval.fn = "freebie_steam.eventsFilter"
    /\ eval.arg = Updates(<< PhotoUpdate(FreebieChatId, EmptyBody, Photo3) >>)
    /\ eval.out.found
    /\ eval.out.size = 200
    /\ eval.out.location = "loc-x"
    /\ eval.out.id = 77

\* C14: the image filter yields an extraction only from an
\* updateNewChannelMessage update of its channel with empty text and a photo
\* as media; a caption, no media, other media or another channel yield none.
C14_ImageFilterScope ==
    eval.fn = "freebie_steam.eventsFilter" =>
      /\ eval.out.found =>
            \E i \in Qualifying : eval.out.id = eval.arg.updates[i].photo.id
      /\ Qualifying = { } => ~eval.out.found /\ ~eval.out.throws

C14_Witness ==
    /\ eval.fn = "freebie_steam.eventsFilter"
    /\ eval.arg = Updates(<< PhotoUpdate(FreebieChatId, KeyXY, Photo3),
                             PhotoUpdate(FreebieChatId, EmptyBody, Photo1) >>)
    /\ eval.out.found
    /\ eval.out.id = 79

\* t is s with some characters deleted, the others in their order
RECURSIVE IsSubseq(_, _)
IsSubseq(t, s) ==
    IF t = << >> THEN TRUE
    ELSE IF s = << >> THEN FALSE
    ELSE IF Head(t) = Head(s) THEN IsSubseq(Tail(t), Tail(s))
    ELSE IsSubseq(t, Tail(s))

\* s with every em-dash replaced by a dash
Dashed(s) == [ i \in DOMAIN s |-> IF s[i] = EmDash THEN "-" ELSE s[i] ]

\* C15: for s made of characters the extraction pattern accepts,
\* filterCdKeyText(s) holds only characters of [A-Za-z0-9-] and is s with
\* some characters deleted and em-dashes replaced by dashes, in order.
C15_NormalizeShape ==
    (eval.fn = "filterCdKeyText"
       /\ \A i \in DOMAIN eval.arg :
            eval.arg[i] \in ({ " ", "-", EmDash } \cup Upper \cup Digits)) =>
      /\ \A i \in DOMAIN eval.out :
           eval.out[i] \in (Upper \cup Lower \cup Digits \cup { "-" })
      /\ IsSubseq(eval.out, Dashed(eval.arg))

C15_Witness ==
    /\ eval.fn = "filterCdKeyText"
    /\ eval.arg = << " ", EmDash, "9" >>
    /\ eval.out = << "-", "9" >>

\* C16: filterCdKeyText is idempotent: applied to its own result it returns
\* that result, for every input.
C16_Idempotent ==
    eval.fn = "filterCdKeyText" => filterCdKeyText(eval.out) = eval.out

C16_Witness ==
    /\ eval.fn = "filterCdKeyText"
    /\ eval.arg = << "\n", EmDash, "_" >>
    /\ eval.out = << "-", "_" >>
    /\ filterCdKeyText(eval.out) = eval.out

\* C17: the string the text handler passes to activate is the candidate
\* normalised as the image path normalises its OCR text, by filterCdKeyText.
C17_SameNormalization ==
    \A i \in DOMAIN calls :
      calls[i].caller = G2Keys =>
        calls[i].arg = filterCdKeyText(calls[i].arg)

\* C18: every string a handler passes to activate holds only letters, digits
\* and the dash: no space, no underscore, no em-dash.
C18_KeyAlphabet ==
    \A i \in DOMAIN calls :
      \A k \in DOMAIN calls[i].arg :
        calls[i].arg[k] \in (Upper \cup Lower \cup Digits \cup { "-" })

\* The stages of an image pipeline run, in their order
Stages == << "fetch", "save", "ocr", "normalize", "activate" >>

\* C19: an image pipeline run starts its stages in the order fetch, save to
\* the file named by the media id, OCR, normalisation, activate, each after
\* the one before it succeeded; a run with a failed stage never calls
\* activate.
C19_StagesInOrder ==
    /\ [][ \A r \in DOMAIN runs' :
             /\ runs'[r].steps = SubSeq(Stages, 1, Len(runs'[r].steps))
             /\ Len(runs'[r].steps) >= 3 => runs'[r].file = runs'[r].id
             /\ r \in DOMAIN runs =>
                   /\ SubSeq(runs'[r].steps, 1, Len(runs[r].steps))
                        = runs[r].steps
                   /\ runs[r].stage \in
                        { "fetch_failed", "save_failed", "uncaught" } =>
                          runs'[r] = runs[r]
             /\ runs'[r].stage \in
                  { "fetch_failed", "save_failed", "uncaught" } =>
                    /\ runs'[r].call = 0
                    /\ Len(runs'[r].steps) < Len(Stages)
             /\ runs'[r].call # 0 =>
                   /\ runs'[r].steps = Stages
                   /\ calls'[runs'[r].call].caller = FreebieSteam
                   /\ calls'[runs'[r].call].arg
                        = filterCdKeyText(runs'[r].text) ]_vars
    /\ [][ \A i \in DOMAIN calls' :
             calls'[i].caller = FreebieSteam =>
               \E r \in DOMAIN runs' : runs'[r].call = i ]_vars

C19_Witness ==
    \E r, q \in DOMAIN runs :
      /\ runs[r].steps = Stages
      /\ runs[r].file = runs[r].id
      /\ runs[r].call # 0
      /\ calls[runs[r].call].arg = << "A","B","_","1","2" >>
      /\ runs[q].stage = "save_failed"
      /\ runs[q].call = 0

\* C20: for every inbound event the dispatcher emits, the listener of every
\* registered handler runs its filter on the event, whatever the other
\* handlers do with it.
C20_EveryHandlerRuns ==
    dispatch.event # NoEvent =>
      \A h \in DOMAIN handlers :
        \E k \in DOMAIN dispatch.ran : dispatch.ran[k] = handlers[h]

\* C21: when handler discovery finds no handler, loadHandlers rejects,
\* startEventHandler is not run and the process ends; when it finds n > 0
\* handlers, each is registered once and loadHandlers resolves with n.
C21_LoadHandlers ==
    /\ [][ (startup.loadHandlers = "pending"
              /\ startup'.loadHandlers # "pending") =>
             IF startup'.files = << >>
             THEN /\ startup'.loadHandlers = "rejected"
                  /\ startup'.stage = "exited"
                  /\ startup'.steps = startup.steps
                  /\ ~startup'.observing
                  /\ handlers' = << >>
             ELSE /\ startup'.loadHandlers = "resolved"
                  /\ startup'.count = Len(startup'.files)
                  /\ handlers' = startup'.files
                  /\ \A i, j \in DOMAIN handlers' :
                       handlers'[i] = handlers'[j] => i = j ]_vars
    /\ [][ startup.loadHandlers = "rejected" =>
             ~startup'.observing /\ startup'.stage = "exited" ]_vars

C21_Witness ==
    /\ startup.loadHandlers = "rejected"
    /\ startup.files = << >>
    /\ startup.exit = "handlers"
    /\ startup.stage = "exited"
    /\ handlers = << >>
    /\ tg.init = "resolved"

\* C22: a logOn response that is not OK rejects KeyActivator.init, with
\* AUTH_CODE_REQUIRED for result code 63 and AUTH_FAILED otherwise, and startup
\* then ends the process: Telegram.init is not called, no handler is loaded
\* and the event stream is not observed.
C22_LoginFailureRejects ==
    [][ ( /\ session[KeyActivatorJs].init = "pending"
          /\ session'[KeyActivatorJs].responses =
               session[KeyActivatorJs].responses + 1
          /\ session'[KeyActivatorJs].code # EResultOK )
        => /\ session'[KeyActivatorJs].init = "rejected"
           /\ session'[KeyActivatorJs].initError =
                IF session'[KeyActivatorJs].code = LOGIN_CODE_REQUIRED
                THEN EC_AUTH_CODE_REQUIRED ELSE EC_AUTH_FAILED
           /\ startup'.stage = "exited" /\ startup'.exit = "steam"
           /\ tg' = TgIdle /\ handlers' = << >> /\ ~startup'.observing ]_vars

\* The stages of the chain of index.js, in order
StartupSteps == << "steam", "telegram", "handlers", "subscribe" >>

\* C23: the startup stages start in the order platform login, messaging
\* login, handler registration, event-stream subscription, each only after
\* the one before it resolved; no event is delivered, no pipeline run started
\* and no activation attempted before both sessions are ready and every
\* handler found is registered.
C23_StagesInOrder ==
    /\ Len(startup.steps) <= Len(StartupSteps)
    /\ startup.steps = SubSeq(StartupSteps, 1, Len(startup.steps))
    /\ Len(startup.steps) >= 2 =>
         /\ session[KeyActivatorJs].init = "resolved"
         /\ session[KeyActivatorJs].ready
    /\ Len(startup.steps) >= 3 => tg.init = "resolved"
    /\ Len(startup.steps) >= 4 =>
         /\ startup.loadHandlers = "resolved"
         /\ startup.files # << >> /\ handlers = startup.files
    /\ (tg.init # "idle" \/ tg.requests # << >>) => Len(startup.steps) >= 2
    /\ startup.loadHandlers # "idle" => Len(startup.steps) >= 3
    /\ handlers # << >> => startup.loadHandlers = "resolved"
    /\ (startup.observing \/ nEvents > 0 \/ calls # << >> \/ runs # << >>) =>
         /\ startup.steps = StartupSteps
         /\ session[KeyActivatorJs].ready
         /\ tg.init = "resolved"
         /\ handlers = startup.files
    /\ \A i \in DOMAIN calls : calls[i].error # EC_NOT_INITED

\* The chain ran through after a prompt for the auth code and a login to
\* Telegram; an event was delivered and a key submitted
C23_Witness ==
    /\ startup.stage = "running" /\ startup.steps = StartupSteps
    /\ session[KeyActivatorJs].authCode /\ tg.logins > 0
    /\ nEvents > 0 /\ Len(calls) > 0 /\ Len(handlers) = 2

\* C24: no session login is issued again after a session-level failure: a
\* logOn response that is not OK is followed by no connect and no logOn of
\* KeyActivator.init, and once Telegram.init has failed (its authorization
\* check or its login raised) it sends no further request and calls login no
\* more.
C24_NoRelogin ==
    /\ [][ ( /\ session'[KeyActivatorJs].responses =
                  session[KeyActivatorJs].responses + 1
             /\ session'[KeyActivatorJs].code # EResultOK )
           => /\ session'[KeyActivatorJs].connecting =
                   session[KeyActivatorJs].connecting
              /\ session'[KeyActivatorJs].loggingOn =
                   session[KeyActivatorJs].loggingOn - 1 ]_vars
    /\ [][ (tg.init = "pending" /\ tg'.init = "rejected") =>
             /\ tg'.pending = "none"
             /\ tg'.logins = tg.logins
             /\ tg'.requests = tg.requests ]_vars
    /\ [][ tg.init = "rejected" => tg' = tg ]_vars

\* The external call run r waits for (image fetch, OCR or redemption) has not
\* returned
Hung(r) ==
    \/ runs[r].stage \in { "fetching", "ocr" }
    \/ runs[r].stage = "activating" /\ calls[runs[r].call].inFlight

\* C25: while an external call of a pipeline run has not returned, every
\* inbound event delivered is still run through the listener of every
\* registered handler, and the external calls of the other runs can still
\* return and take those runs on to activation and to their end.
C25_HangDoesNotBlock ==
    /\ [][ \A ev \in InboundEvents :
             ((\E r \in DOMAIN runs : Hung(r)) /\ Delivers(ev)) =>
               \A h \in DOMAIN handlers :
                 \E k \in DOMAIN dispatch'.ran : dispatch'.ran[k] = handlers[h]
         ]_vars
    /\ [](\A r, q \in DOMAIN runs :
            (Alive /\ r # q /\ Hung(r)) =>
              /\ runs[q].stage = "fetching" => ENABLED FetchDone(q, "ok")
              /\ runs[q].stage = "ocr" =>
                   \A t \in OcrTexts : ENABLED OcrDone(q, t)
              /\ Hung(q) /\ runs[q].stage = "activating" =>
                   \A resp \in PipelineResponses :
                     ENABLED PurchaseResponse(runs[q].call, resp))

\* C26: a message observed on the stream is emitted once, in the step that
\* observes it: the listeners run on it in the order of their registration,
\* each at most once, all of them unless one raises; and no listener runs,
\* and no event is recorded as delivered, in any other step.
C26_OneEmitPerMessage ==
    [][ /\ nEvents' \in { nEvents, nEvents + 1 }
        /\ nEvents' = nEvents + 1 =>
             /\ dispatch'.event \in InboundEvents
             /\ Len(dispatch'.ran) <= Len(handlers)
             /\ dispatch'.ran = SubSeq(handlers, 1, Len(dispatch'.ran))
             /\ ~dispatch'.threw => dispatch'.ran = handlers
             /\ Len(runs') <= Len(runs) + 1
             /\ Len(calls') <= Len(calls) + 1
        /\ nEvents' = nEvents =>
             /\ dispatch' = dispatch
             /\ lastMsg' = lastMsg
             /\ Len(runs') = Len(runs) ]_vars

\* Two events have been delivered one after the other, the second to both
\* listeners
C26_Witness ==
    /\ nEvents = 2 /\ dispatch.ran = handlers /\ Len(handlers) = 2
    /\ dispatch.event = TextEvent(KeyAB)
    /\ Len(calls) = 2 /\ calls[1].arg = KeyXY
    /\ dispatch.activated = << calls[2].arg >>

\* C27: on a ready session every call of activate whose redemption request
\* got a response is settled, resolved or rejected, whatever the result
\* code, the detail code and the receipt info of the response; a product
\* name the response does not carry is logged as "unknown".
C27_EveryResponseSettles ==
    \A i \in DOMAIN calls :
      (calls[i].requests > 0 /\ calls[i].resp # << >>) =>
        /\ calls[i].promise \in { "resolved", "rejected" }
        /\ ~calls[i].threw
        /\ (calls[i].gameName # "none" /\ calls[i].resp[1].receipt # "item")
             => calls[i].gameName = "unknown"

\* C28: lastMsg is the body of the last message a candidate key was
\* extracted from: a step changes it only by delivering a message of which
\* the g2keys listener extracts a key, to the body of that message, and a
\* message no key is extracted from leaves it as it was.
C28_LastMsgOfLastCandidate ==
    [][ /\ lastMsg' # lastMsg =>
             /\ dispatch'.activated # << >>
             /\ lastMsg' = dispatch'.textMsg
        /\ (nEvents' = nEvents + 1 /\ dispatch'.activated = << >>) =>
             lastMsg' = lastMsg ]_vars

\* The channels the new channel messages of event ev are posted on
ChannelsOf(ev) ==
    { ev.updates[i].channel_id :
        i \in { j \in DOMAIN ev.updates :
                  ev.updates[j].kind = "updateNewChannelMessage" } }

\* C29: the two handlers watch different channels, so what a filter extracts
\* from an event comes from an update of its own channel; an event with one
\* update yields an extraction in at most one handler, and an event yields
\* one in both only when it carries messages of both channels.
C29_DisjointChannels ==
    /\ G2KeysChatId # FreebieChatId
    /\ dispatch.event # NoEvent =>
         /\ dispatch.textMsg # Undefined =>
              \E i \in DOMAIN dispatch.event.updates :
                /\ TextQualifies(dispatch.event.updates[i])
                /\ dispatch.event.updates[i].message = dispatch.textMsg
         /\ dispatch.fileFound =>
              \E i \in DOMAIN dispatch.event.updates :
                ImageQualifies(dispatch.event.updates[i])
         /\ (dispatch.textMsg # Undefined /\ dispatch.fileFound) =>
              /\ Len(dispatch.event.updates) > 1
              /\ { G2KeysChatId, FreebieChatId }
                   \subseteq ChannelsOf(dispatch.event)
         /\ \A i \in DOMAIN dispatch.event.updates :
              ~(TextQualifies(dispatch.event.updates[i])
                  /\ ImageQualifies(dispatch.event.updates[i]))

\* One event with a message of each channel started a run in both handlers
C29_Witness ==
    /\ dispatch.textMsg = KeyXY /\ dispatch.fileFound
    /\ dispatch.ran = handlers /\ Len(handlers) = 2
    /\ Len(runs) = 1 /\ Len(calls) = 1 /\ nEvents = 1

\* C30: a new message of the g2keys channel whose body holds no run of 5 or
\* more characters of the pattern makes the g2keys listener return without
\* raising and without a call of activate, and the listeners registered
\* after it run on the event.
C30_NoRunNoThrow ==
    [][ \A b \in TextBodies :
          (Delivers(TextEvent(b)) /\ b # lastMsg /\ match(b) = Null) =>
            /\ ~dispatch'.threw
            /\ dispatch'.activated = << >>
            /\ calls' = calls
            /\ dispatch'.ran = handlers ]_vars

\* The i-th message of the listener's harness yielded an extraction
Yielded(i) == eval.out[i] # Undefined

\* The calls of activate with the key of body b
Submitted(b) ==
    { k \in DOMAIN calls : calls[k].arg = parseCdKey(b).cdKey }

\* The i-th to (i+2)-th bodies are A, B, A with A different from B
IsABA(i) ==
    /\ i + 2 <= Len(eval.arg)
    /\ eval.arg[i] = eval.arg[i + 2]
    /\ eval.arg[i] # eval.arg[i + 1]

\* C31: of bodies A, B, A arriving in that order on the g2keys channel, A
\* different from B, all three yield extractions, and the key in A is
\* submitted for activation twice.
C31_ABA ==
    \A i \in DOMAIN eval.arg :
      IsABA(i) =>
        /\ Yielded(i) /\ Yielded(i + 1) /\ Yielded(i + 2)
        /\ ~parseCdKey(eval.arg[i]).throws =>
             Cardinality(Submitted(eval.arg[i])) >= 2

\* C31 as amended: the second and the third yield extractions, and the first
\* yields one exactly if A differs from lastMsg when it arrives, which is the
\* body of the message before it (the empty string at the start); the key in
\* A is submitted once for every A that yields, twice at least.
C31_ABAAgainstLastMsg ==
    /\ lastMsg = (IF eval.arg = << >> THEN EmptyBody
                  ELSE eval.arg[Len(eval.arg)])
    /\ \A i \in DOMAIN eval.arg :
         IsABA(i) =>
           /\ Yielded(i + 1) /\ Yielded(i + 2)
           /\ Yielded(i) <=>
                (IF i = 1 THEN EmptyBody ELSE eval.arg[i - 1]) # eval.arg[i]
           /\ ~parseCdKey(eval.arg[i]).throws =>
                /\ Cardinality(Submitted(eval.arg[i])) >= 2
                /\ Cardinality(Submitted(eval.arg[i])) =
                     Cardinality({ j \in DOMAIN eval.arg :
                                     eval.arg[j] = eval.arg[i] /\ Yielded(j) })

C31_Witness ==
    /\ eval.arg = << KeyXY, KeyAB, KeyXY >>
    /\ Yielded(1) /\ Yielded(2) /\ Yielded(3)
    /\ Len(calls) = 3 /\ calls[1].arg = KeyXY /\ calls[3].arg = KeyXY
    /\ lastMsg = KeyXY

\* The updates of event ev the g2keys filter, and the freebie_steam filter,
\* is bound to
TextQualifying(ev) ==
    { i \in DOMAIN ev.updates : TextQualifies(ev.updates[i]) }
ImageQualifying(ev) ==
    { i \in DOMAIN ev.updates : ImageQualifies(ev.updates[i]) }

\* The least element of a non-empty set of indices
First(S) == CHOOSE i \in S : \A k \in S : i <= k

\* The step starts at most one run and makes at most one call of activate,
\* and what the image filter extracts is the photo of the first qualifying
\* update of ev
OneRunFromFirstPhoto(ev) ==
    /\ Len(runs') <= Len(runs) + 1
    /\ Len(calls') <= Len(calls) + 1
    /\ Len(dispatch'.activated) <= 1
    /\ IF ImageQualifying(ev) = { }
       THEN ~dispatch'.fileFound /\ runs' = runs
       ELSE LET u == ev.updates[First(ImageQualifying(ev))]
            IN  /\ dispatch'.fileFound
                /\ Len(runs') = Len(runs) + 1
                /\ runs'[Len(runs')].id = u.photo.id
                /\ runs'[Len(runs')].location
                     = u.photo.sizes[Len(u.photo.sizes)].location

\* C32: on an 'updates' event a handler starts at most one pipeline run,
\* from the first qualifying update of the event; the qualifying updates
\* after it yield nothing and, for the text filter, leave lastMsg alone.
C32_FirstQualifying ==
    [][ \A ev \in HandlerEvents :
          Delivers(ev) =>
            /\ OneRunFromFirstPhoto(ev)
            /\ IF TextQualifying(ev) = { }
               THEN dispatch'.textMsg = Undefined /\ lastMsg' = lastMsg
               ELSE LET m == ev.updates[First(TextQualifying(ev))].message
                    IN  /\ dispatch'.textMsg \in { Undefined, m }
                        /\ lastMsg' \in { lastMsg, m } ]_vars

\* C32 as amended: the text filter extracts from the first qualifying update
\* whose body differs from lastMsg, and the updates after that one yield
\* nothing and leave lastMsg alone; with no such update it yields nothing.
C32_FirstNewQualifying ==
    [][ \A ev \in HandlerEvents :
          Delivers(ev) =>
            /\ OneRunFromFirstPhoto(ev)
            /\ LET new == { i \in TextQualifying(ev) :
                              ev.updates[i].message # lastMsg }
               IN  IF new = { }
                   THEN dispatch'.textMsg = Undefined /\ lastMsg' = lastMsg
                   ELSE /\ dispatch'.textMsg = ev.updates[First(new)].message
                        /\ lastMsg' = ev.updates[First(new)].message
                        /\ dispatch'.activated =
                             << parseCdKey(lastMsg').cdKey >> ]_vars

\* Events with two qualifying updates were delivered: the image filter took
\* the first photo, the text filter the second body, the first repeating
\* lastMsg
C32_Witness ==
    /\ nEvents = 2 /\ Len(runs) = 1 /\ runs[1].id = Photo1.id
    /\ dispatch.event = Updates(<< TextUpdate(G2KeysChatId, KeyXY),
                                   TextUpdate(G2KeysChatId, KeySpaced) >>)
    /\ Len(calls) = 1 /\ calls[1].arg = KeyXY /\ lastMsg = KeyXY

\* C33: _ready is false at first, becomes true only on a logOn response
\* whose result code is OK, and once true stays true, also when a later
\* logOn response is not OK and when the connection is lost; the promise of
\* KeyActivator.init resolves only with _ready true.
C33_ReadyFlag ==
    /\ session[KeyActivatorJs].init = "idle" => ~isReady(KeyActivatorJs)
    /\ [][ (~isReady(KeyActivatorJs) /\ isReady(KeyActivatorJs)') =>
             /\ session'[KeyActivatorJs].responses
                  = session[KeyActivatorJs].responses + 1
             /\ session'[KeyActivatorJs].code = EResultOK ]_vars
    /\ [][ isReady(KeyActivatorJs) => isReady(KeyActivatorJs)' ]_vars
    /\ [](session[KeyActivatorJs].init = "resolved" => isReady(KeyActivatorJs))

\* After a login with an auth code the connection was lost and the process
\* went on: the flag is still true, and activate sends its request
C33_Witness ==
    /\ isReady(KeyActivatorJs)
    /\ session[KeyActivatorJs].init = "resolved"
    /\ session[KeyActivatorJs].authCode
    /\ session[KeyActivatorJs].lost
    /\ startup.stage # "crashed"
    /\ calls # << >> /\ calls[Len(calls)].requests = 1

\* The calls of steamUser.logOn made so far: those awaiting their response
\* and those answered
LogOnsIssued(s) == s.loggingOn + s.responses

\* C34: KeyActivator.init calls logOn only in the listener of 'connected',
\* once for the connection that was established, also after a response
\* with result code 63.
C34_LogOnPerConnection ==
    [][ LogOnsIssued(session'[KeyActivatorJs])
          # LogOnsIssued(session[KeyActivatorJs]) =>
          /\ LogOnsIssued(session'[KeyActivatorJs])
               = LogOnsIssued(session[KeyActivatorJs]) + 1
          /\ session'[KeyActivatorJs].connecting
               = session[KeyActivatorJs].connecting - 1
          /\ session'[KeyActivatorJs].responses
               = session[KeyActivatorJs].responses ]_vars

\* The requests login(phone) sends
LoginMethods ==
    { "auth.sendCode", "auth.signIn", "account.getPassword",
      "auth.checkPassword" }

\* C35: Telegram.init resolves only on an authorization check that returned
\* true; login is started only by a check that reported the user as not
\* authorized (AUTH_KEY_UNREGISTERED or SESSION_PASSWORD_NEEDED); and a login
\* that succeeded is followed by a new check before init can resolve.
C35_ResolveOnlyOnCheck ==
    /\ [](tg.init = "resolved" =>
            /\ tg.checks # << >>
            /\ tg.checks[Len(tg.checks)] = "true"
            /\ Len(tg.checks) = tg.logins + 1)
    /\ [][ (tg.init = "pending" /\ tg'.init = "resolved") =>
             /\ tg.pending = "users.getFullUser"
             /\ tg'.checks = Append(tg.checks, "true") ]_vars
    /\ [][ tg'.logins # tg.logins =>
             /\ tg'.logins = tg.logins + 1
             /\ tg.pending = "users.getFullUser"
             /\ tg'.checks = Append(tg.checks, "false")
             /\ tg'.pending = "auth.sendCode" ]_vars
    /\ [][ (tg.pending \in LoginMethods /\ tg'.pending \notin LoginMethods) =>
             \/ tg'.init = "rejected"
             \/ /\ tg'.init = "pending"
                /\ tg'.pending = "users.getFullUser"
                /\ tg'.requests = Append(tg.requests, "users.getFullUser")
                /\ tg'.checks = tg.checks ]_vars

\* Init resolved on the check made after a login with the password steps
C35_Witness ==
    /\ tg.init = "resolved" /\ tg.logins = 1
    /\ tg.checks = << "false", "true" >>
    /\ tg.requests = << "users.getFullUser", "auth.sendCode", "auth.signIn",
                        "account.getPassword", "auth.checkPassword",
                        "users.getFullUser" >>
    /\ startup.steps = << "steam", "telegram", "handlers" >>

\* C36: Telegram.init rejects, starting no login, when the authorization
\* check fails with an error other than AUTH_KEY_UNREGISTERED and
\* SESSION_PASSWORD_NEEDED; it rejects, making no further check, when login
\* fails; and resolve and reject are called once at most.
C36_RejectsOnce ==
    /\ [][ ( /\ tg.pending = "users.getFullUser" /\ tg' # tg
             /\ tg'.result \notin { "ok", "AUTH_KEY_UNREGISTERED",
                                    "SESSION_PASSWORD_NEEDED" } )
           => /\ tg'.init = "rejected"
              /\ tg'.error = tg'.result
              /\ tg'.checks = Append(tg.checks, "error")
              /\ tg'.logins = tg.logins
              /\ tg'.requests = tg.requests
              /\ tg'.pending = "none" ]_vars
    /\ [][ ( /\ tg.pending \in LoginMethods /\ tg' # tg
             /\ tg'.result # "ok"
             /\ ~(tg.pending = "auth.signIn"
                    /\ tg'.result = "SESSION_PASSWORD_NEEDED") )
           => /\ tg'.init = "rejected"
              /\ tg'.error = tg'.result
              /\ tg'.checks = tg.checks
              /\ tg'.logins = tg.logins
              /\ tg'.requests = tg.requests
              /\ tg'.pending = "none" ]_vars
    /\ [](tg.settles <= 1)
    /\ [](tg.settles = 1 <=> tg.init \in { "resolved", "rejected" })
    /\ [][ tg.init \in { "resolved", "rejected" } => tg' = tg ]_vars

\* Init rejected on a check that failed with another error, no login made;
\* the process ended
C36_Witness ==
    /\ tg.init = "rejected" /\ tg.error = "FLOOD_WAIT"
    /\ tg.checks = << "error" >> /\ tg.logins = 0
    /\ tg.requests = << "users.getFullUser" >> /\ tg.settles = 1
    /\ tg.result = "FLOOD_WAIT"
    /\ startup.stage = "exited" /\ startup.exit = "telegram"

\* The step sends the request method
Sends(method) == tg'.requests = Append(tg.requests, method)

\* The step ends login with the error the request failed with: Telegram.init
\* rejects with it and no request is sent
LoginRejects ==
    /\ tg'.init = "rejected" /\ tg'.error = tg'.result
    /\ tg'.requests = tg.requests /\ tg'.pending = "none"

\* C38: login sends account.getPassword, then auth.checkPassword, only after
\* auth.signIn failed with SESSION_PASSWORD_NEEDED; on another error of
\* auth.signIn, and on any error of auth.sendCode, it rejects with that error
\* and makes no password call; it sends auth.signIn only after auth.sendCode
\* succeeded.
C38_LoginSteps ==
    /\ [][ Sends("account.getPassword") =>
             /\ tg.pending = "auth.signIn"
             /\ tg'.result = "SESSION_PASSWORD_NEEDED" ]_vars
    /\ [][ Sends("auth.checkPassword") =>
             /\ tg.pending = "account.getPassword"
             /\ tg'.result = "ok" ]_vars
    /\ [][ Sends("auth.signIn") =>
             /\ tg.pending = "auth.sendCode"
             /\ tg'.result = "ok" ]_vars
    /\ [][ ( /\ tg.pending = "auth.signIn" /\ tg' # tg
             /\ tg'.result \notin { "ok", "SESSION_PASSWORD_NEEDED" } )
           => LoginRejects ]_vars
    /\ [][ (tg.pending = "auth.sendCode" /\ tg' # tg /\ tg'.result # "ok")
           => LoginRejects ]_vars
    /\ [](\A i \in DOMAIN tg.requests :
            /\ tg.requests[i] = "auth.signIn" =>
                 i > 1 /\ tg.requests[i - 1] = "auth.sendCode"
            /\ tg.requests[i] = "account.getPassword" =>
                 i > 1 /\ tg.requests[i - 1] = "auth.signIn"
            /\ tg.requests[i] = "auth.checkPassword" =>
                 i > 1 /\ tg.requests[i - 1] = "account.getPassword")

\* auth.signIn failed with PHONE_CODE_INVALID: init rejected with it and no
\* password call was made
C38_Witness ==
    /\ tg.init = "rejected" /\ tg.error = "PHONE_CODE_INVALID"
    /\ tg.requests = << "users.getFullUser", "auth.sendCode", "auth.signIn" >>
    /\ startup.stage = "exited"

\* C37: when every call Telegram.init makes returns, the promise of
\* Telegram.init is settled in the end: the round of authorization check and
\* login does not repeat for ever.
C37_InitSettles ==
    (tg.init = "pending") ~> (tg.init \in { "resolved", "rejected" })

=============================================================================
